---- MODULE Spec2Model ----
(***************************************************************************)
(* memex-langserver: the server's entity store (workspaces, documents,     *)
(* tasks, jobs), the task scheduler (TaskManager) and the document         *)
(* lifecycle handlers of Server, as one state machine.                     *)
(*                                                                         *)
(* JavaScript runs every handler to completion: an action is one handler   *)
(* together with everything it calls synchronously.  An execution of a     *)
(* task's unit of work is split in two steps: its start (the synchronous   *)
(* part of processJob/executeTask up to the first await, run inside the    *)
(* handler that called submitTask) and its resumption (Complete), which    *)
(* the event loop runs when the awaited analysis settles.                  *)
(***************************************************************************)
EXTENDS Integers, Sequences, FiniteSets, TLC

\* ------------------------------------------------------------------ bounds

\* Cap of Job.idCounter: no more than MaxJobs jobs are created in a run.
MaxJobs == 3

\* Cap of Workspace.idCounter: no more than MaxWorkspaces workspaces are created.
MaxWorkspaces == 2

\* Jobs ever created in a run of the whole server.
MaxServerJobs == 1

\* Cap of the length of a text buffer's content.
MaxLen == 2

\* Cap of the number of parses of a text buffer (each makes a new tree).
MaxParses == 2

\* Cap of the clock, in ticks.
MaxTime == 6

\* Cap of the changes of one document between two analyses.
MaxEdits == 3

\* debounceTime(500), in ticks of 250 ms.
QuietPeriod == 2

\* --------------------------------------------------------------- universe

\* The files on disk: a folder "W" with a project-root marker and two
\* documents, and a lone file "S.rst" outside any project root.
FolderUris == {"W"}
DocumentUris == {"W/b.rst", "W/index.rst", "S.rst"}

\* A document's text, abstracted to the symbol (citekey) it defines and cites.
Names == {"x", "y"}

Undefined == "undefined"
\* A lastCompleted that was set: the value of Date.now() is never read back,
\* only compared with undefined.
Stamped == "stamped"
\* The result of a handler that returns nothing.
Void == [op |-> "void"]
NoJob == [id |-> 0, taskId |-> 0]
\* The marker of an absent cache entry (no table holds this pair).
NoValue == {<<"", "">>}

\* The names under which a workspace memoizes its derived tables.
WorkspaceCacheKeys ==
  {"referencesByKey", "referencesByCitekey", "sectionsByCitekey", "sectionTree"}

VARIABLES
  workspaces,     \* store.workspaces: records [id, uri]
  documents,      \* store.documents: records [id, uri, workspaceId, state, text]
  tasks,          \* store.tasks: records [id, documentId, dependencyIds, lastCompleted]
  jobs,           \* store.jobs: records [id, taskId]
  idCounter,      \* the static idCounter of each Model class
  priorityQueue,  \* TaskManager.priorityQueue: job ids
  cancelled,      \* TaskManager.cancelled: job ids
  proc,           \* per created job: the processJob activation
                  \*   [task, document, pc, runs, undone]
  promise,        \* per created job: the state of Job.promise
  wsCache,        \* per workspace id: Workspace.cache, key -> memoized table
  disk,           \* file contents, per document uri
  open,           \* the document uris the editor has open (client side)
  timers,         \* the document uris whose debounce timer is pending
  ret,            \* what the last handler returned
  tsDoc,          \* one text buffer (FullTextDocument):
                  \*   [content, lineOffsets, version, tree]
  docCache,       \* Document.cache of the buffer's document: fact name -> list
  out,            \* what the last operation on the buffer returned
  now,            \* the time, in ticks
  debouncers,     \* Server.debouncers: per key, the time its pending timer
                  \*   fires at (0: no timer pending)
  edits,          \* per document uri: the time of its last change and the
                  \*   changes not yet followed by an analysis
  facts           \* per document uri of one workspace: the fact lists
                  \*   extracted from the document's tree

vars == <<workspaces, documents, tasks, jobs, idCounter, priorityQueue,
          cancelled, proc, promise, wsCache, disk, open, timers, ret,
          tsDoc, docCache, out, now, debouncers, edits, facts>>

\* The variables of the store, the scheduler and the server's handlers, and
\* those of the single text buffer.
serverVars == <<workspaces, documents, tasks, jobs, idCounter, priorityQueue,
                cancelled, proc, promise, wsCache, disk, open, timers, ret>>
bufferVars == <<tsDoc, docCache, out>>
timeVars == <<now, debouncers, edits>>

\* ---------------------------------------------------------------- helpers

\* No text buffer is looked at.
NoBuffer ==
  /\ tsDoc = [content |-> <<>>, lineOffsets |-> <<>>, version |-> 0, tree |-> 0]
  /\ docCache = <<>>
  /\ out = Void
  /\ now = 0
  /\ debouncers = <<>>
  /\ edits = <<>>
  /\ facts = <<>>

RECURSIVE SetToSortedSeq(_)
SetToSortedSeq(S) ==
  IF S = {} THEN <<>>
  ELSE LET m == CHOOSE x \in S : \A y \in S : x <= y
       IN <<m>> \o SetToSortedSeq(S \ {m})

\* The state every operation works on, as one value; threw is set when the
\* handler has thrown, which ends it.
Cur ==
  [workspaces |-> workspaces, documents |-> documents, tasks |-> tasks,
   jobs |-> jobs, idCounter |-> idCounter, priorityQueue |-> priorityQueue,
   cancelled |-> cancelled, proc |-> proc, promise |-> promise,
   wsCache |-> wsCache, disk |-> disk, ret |-> ret, threw |-> FALSE]

Install(s) ==
  /\ workspaces' = s.workspaces
  /\ documents' = s.documents
  /\ tasks' = s.tasks
  /\ jobs' = s.jobs
  /\ idCounter' = s.idCounter
  /\ priorityQueue' = s.priorityQueue
  /\ cancelled' = s.cancelled
  /\ proc' = s.proc
  /\ promise' = s.promise
  /\ wsCache' = s.wsCache
  /\ disk' = s.disk
  /\ ret' = s.ret
  /\ UNCHANGED <<bufferVars, timeVars, facts>>

\* ------------------------------------------------------------------ store

\* store.tasks.by('id', id) / store.documents.by('id', id)
TaskById(ts, id) == CHOOSE t \in ts : t.id = id
HasTask(ts, id) == \E t \in ts : t.id = id
DocumentById(ds, id) == CHOOSE d \in ds : d.id = id
HasDocument(ds, id) == \E d \in ds : d.id = id
HasDocumentUri(ds, uri) == \E d \in ds : d.uri = uri
DocumentByUri(ds, uri) == CHOOSE d \in ds : d.uri = uri
HasWorkspaceUri(ws, uri) == \E w \in ws : w.uri = uri
WorkspaceByUri(ws, uri) == CHOOSE w \in ws : w.uri = uri

\* The unique index of the jobs collection on taskId: the job stored under
\* a task id, or NoJob.
JobsByTaskId_NoIndex(js, tid) == NoJob
JobsByTaskId(js, tid) ==
  IF \E j \in js : j.taskId = tid
  THEN CHOOSE j \in js : j.taskId = tid
  ELSE NoJob

\* store.jobs.insert: fails with a duplicate-key error when the id or the
\* taskId is already indexed.
JobsInsertFails(js, j) ==
  \/ \E k \in js : k.id = j.id
  \/ JobsByTaskId(js, j.taskId) # NoJob

\* Task.job
TaskJob_AlwaysUndefined(s, tid) == NoJob
TaskJob(s, tid) == JobsByTaskId(s.jobs, tid)

\* Task.dependencies: the stored tasks among dependencyIds, in collection order.
TaskDependencies(s, tid) ==
  SetToSortedSeq({d \in TaskById(s.tasks, tid).dependencyIds : HasTask(s.tasks, d)})

\* Workspace.documents
WorkspaceDocuments(s, wid) == {d \in s.documents : d.workspaceId = wid}

\* -------------------------------------------------------- workspace cache

\* What a workspace table is computed from: the text of every member document.
ComputeTable(s, wid) == {<<d.uri, d.text>> : d \in WorkspaceDocuments(s, wid)}

\* memoizer: the cached value if the key is present, else compute and store.
Memoize(s, wid, key) ==
  IF s.wsCache[wid][key] # NoValue THEN s
  ELSE [s EXCEPT !.wsCache[wid][key] = ComputeTable(s, wid)]

EmptyCache == [k \in WorkspaceCacheKeys |-> NoValue]

\* Workspace.clearCache
ClearCache(s, wid) == [s EXCEPT !.wsCache[wid] = EmptyCache]

\* -------------------------------------------------------------- scheduler

\* executeTask up to its first suspension: the audit's synchronous passes
\* run on the document's text as it is and read the workspace's citekey tables.
ExecuteTaskStart(s, jobId) ==
  LET job == CHOOSE j \in s.jobs : j.id = jobId
      task == TaskById(s.tasks, job.taskId)
      document == DocumentById(s.documents, task.documentId)
      s1 == Memoize(s, document.workspaceId, "referencesByCitekey")
      s2 == Memoize(s1, document.workspaceId, "sectionsByCitekey")
  IN [s2 EXCEPT !.proc[jobId] =
        [@ EXCEPT !.pc = "running", !.runs = @ + 1,
                  !.task = task.id, !.document = document.id,
                  !.text = document.text]]

\* processJob up to its first suspension.
ProcessJobStart_IgnoreCancelled(s, jobId) == ExecuteTaskStart(s, jobId)
ProcessJobStart(s, jobId) ==
  IF jobId \in s.cancelled
  THEN [s EXCEPT !.cancelled = @ \ {jobId}, !.proc[jobId].pc = "dropped"]
  ELSE ExecuteTaskStart(s, jobId)

\* The subscriber of jobQueue$: pop one id and process it.
JobQueueNext_WaitWhileBusy(s) ==
  IF \E j \in DOMAIN s.proc : s.proc[j].pc = "running" THEN s
  ELSE ProcessJobStart([s EXCEPT !.priorityQueue = Tail(@)], Head(s.priorityQueue))
JobQueueNext(s) ==
  ProcessJobStart([s EXCEPT !.priorityQueue = Tail(@)], Head(s.priorityQueue))

NewProc ==
  [task |-> 0, document |-> 0, text |-> "", pc |-> "queued", runs |-> 0, undone |-> {}]

RECURSIVE SubmitTaskRec(_, _)
RECURSIVE SubmitDependencies(_, _)

\* A forEach that would submit every dependency without a Job, completed
\* before or not.
SubmitDependencies_IgnoreStamp(s, deps) ==
  IF deps = <<>> THEN s
  ELSE LET dep == TaskById(s.tasks, Head(deps))
           s1 == IF TaskJob(s, dep.id) = NoJob THEN SubmitTaskRec(s, dep.id) ELSE s
       IN SubmitDependencies(s1, Tail(deps))

\* The forEach over task.dependencies.
SubmitDependencies(s, deps) ==
  IF deps = <<>> THEN s
  ELSE LET dep == TaskById(s.tasks, Head(deps))
           s1 == IF dep.lastCompleted = Undefined /\ TaskJob(s, dep.id) = NoJob
                 THEN SubmitTaskRec(s, dep.id)
                 ELSE s
       IN SubmitDependencies(s1, Tail(deps))

\* submitTask: s.ret.handle is the job whose promise is returned (0 when the
\* call throws), s.ret.live the jobs stored for the task when it was called.
SubmitTaskRec(s, tid) ==
  LET job == TaskJob(s, tid)
      live == {j.id : j \in {k \in s.jobs : k.taskId = tid}}
      unscheduled == {d \in TaskById(s.tasks, tid).dependencyIds :
                        /\ HasTask(s.tasks, d)
                        /\ TaskById(s.tasks, d).lastCompleted = Undefined
                        /\ TaskJob(s, d) = NoJob}
  IN IF job = NoJob
     THEN LET s1 == SubmitDependencies(s, TaskDependencies(s, tid))
              id == s1.idCounter.Job + 1
              newJob == [id |-> id, taskId |-> tid]
              s2 == [s1 EXCEPT !.idCounter.Job = id,
                               !.promise = @ @@ (id :> "pending"),
                               !.proc = @ @@ (id :> NewProc)]
          IN IF JobsInsertFails(s2.jobs, newJob)
             THEN [s2 EXCEPT !.ret = [op |-> "submitTask", task |-> tid,
                                      live |-> live, handle |-> 0]]
             ELSE LET s3 == [s2 EXCEPT !.jobs = @ \cup {newJob},
                                       !.priorityQueue = Append(@, id)]
                      s4 == JobQueueNext(s3)
                      s5 == [s4 EXCEPT !.proc[id].undone =
                               IF s4.proc[id].pc = "running"
                               THEN {d \in unscheduled :
                                       TaskById(s4.tasks, d).lastCompleted = Undefined}
                               ELSE {}]
                  IN [s5 EXCEPT !.ret = [op |-> "submitTask", task |-> tid,
                                         live |-> live, handle |-> id]]
     ELSE [s EXCEPT !.ret = [op |-> "submitTask", task |-> tid,
                             live |-> live, handle |-> job.id]]

\* cancelJob
CancelJobIn_RejectsHandle(s, jobId) ==
  [s EXCEPT !.cancelled = @ \cup {jobId},
            !.promise = [j \in DOMAIN @ |-> IF j = jobId THEN "rejected" ELSE @[j]]]
CancelJobIn(s, jobId) == [s EXCEPT !.cancelled = @ \cup {jobId}]

\* processJob after the await: executeTask stores the diagnostics
\* (documents.update fails for a document no longer stored), then the task
\* is stamped and persisted, the handle fulfilled and the job removed.
ProcessJobResume_NoFulfill(s, jobId) ==
  LET p == s.proc[jobId]
  IN IF ~HasDocument(s.documents, p.document) \/ ~HasTask(s.tasks, p.task)
     THEN [s EXCEPT !.proc[jobId].pc = "threw"]
     ELSE [s EXCEPT
             !.tasks = (@ \ {TaskById(s.tasks, p.task)}) \cup
                       {[TaskById(s.tasks, p.task) EXCEPT !.lastCompleted = Stamped]},
             !.proc[jobId].pc = "done",
             !.jobs = {j \in @ : j.id # jobId}]
\* A resumption that would fulfil the handle and leave the Job stored.
ProcessJobResume_KeepJob(s, jobId) ==
  LET p == s.proc[jobId]
  IN IF ~HasDocument(s.documents, p.document) \/ ~HasTask(s.tasks, p.task)
     THEN [s EXCEPT !.proc[jobId].pc = "threw"]
     ELSE [s EXCEPT
             !.tasks = (@ \ {TaskById(s.tasks, p.task)}) \cup
                       {[TaskById(s.tasks, p.task) EXCEPT !.lastCompleted = Stamped]},
             !.promise[jobId] = "fulfilled",
             !.proc[jobId].pc = "done"]
ProcessJobResume(s, jobId) ==
  LET p == s.proc[jobId]
  IN IF ~HasDocument(s.documents, p.document) \/ ~HasTask(s.tasks, p.task)
     THEN [s EXCEPT !.proc[jobId].pc = "threw"]
     ELSE [s EXCEPT
             !.tasks = (@ \ {TaskById(s.tasks, p.task)}) \cup
                       {[TaskById(s.tasks, p.task) EXCEPT !.lastCompleted = Stamped]},
             !.promise[jobId] = "fulfilled",
             !.proc[jobId].pc = "done",
             !.jobs = {j \in @ : j.id # jobId}]

\* ----------------------------------------------------------------- server

RECURSIVE DropTasks(_, _)
\* The forEach over doc.tasks in dropDocument.
DropTasks(s, tids) ==
  IF tids = <<>> THEN s
  ELSE LET task == TaskById(s.tasks, Head(tids))
           job == TaskJob(s, task.id)
           s1 == IF job # NoJob
                 THEN [CancelJobIn(s, job.id) EXCEPT !.jobs = @ \ {job}]
                 ELSE s
       IN DropTasks([s1 EXCEPT !.tasks = @ \ {task}], Tail(tids))

\* dropDocument
DropDocumentIn(s, docId) ==
  LET doc == DocumentById(s.documents, docId)
      s1 == DropTasks(s, SetToSortedSeq({t.id : t \in {u \in s.tasks : u.documentId = docId}}))
  IN [s1 EXCEPT !.documents = @ \ {doc}]

\* resolveDocumentWorkspace: the nearest ancestor folder holding a project-root
\* marker, else the document's own uri.
resolveDocumentWorkspace(uri) ==
  IF uri \in {"W/b.rst", "W/index.rst"} THEN "W" ELSE uri

\* resolveWorkspaceDocuments: the .rst files under a folder.
resolveWorkspaceDocuments(wsUri) ==
  IF wsUri = "W" THEN <<"W/b.rst", "W/index.rst">>
  ELSE IF wsUri = "P" THEN <<"S.rst", "W/b.rst", "W/index.rst">>
  ELSE <<>>

\* Workspace.type
WorkspaceType(wsUri) == IF wsUri = "S.rst" THEN "single-file" ELSE "multi-file"

RECURSIVE InsertDocuments(_, _, _, _)
\* The docPaths.map of addWorkspace: one Document per file, read from disk;
\* documents.insert throws on a uri already stored.
InsertDocuments(s, wsUri, wid, paths) ==
  IF paths = <<>> THEN s
  ELSE LET furi == Head(paths)
           id == s.idCounter.Document + 1
           doc == [id |-> id, uri |-> furi, workspaceId |-> wid,
                   state |-> IF wsUri = furi THEN "editing" ELSE "indexing",
                   text |-> s.disk[furi]]
           s1 == [s EXCEPT !.idCounter.Document = id]
       IN IF HasDocumentUri(s.documents, furi)
          THEN [s1 EXCEPT !.threw = TRUE]
          ELSE InsertDocuments([s1 EXCEPT !.documents = @ \cup {doc}],
                               wsUri, wid, Tail(paths))

RECURSIVE InsertTasks_Twice(_, _)
\* A docs.forEach that would insert two Tasks per Document.
InsertTasks_Twice(s, docIds) ==
  IF docIds = <<>> THEN s
  ELSE LET id == s.idCounter.Task + 1
           task(i) == [id |-> i, operation |-> "audit", documentId |-> Head(docIds),
                       dependencyIds |-> {}, lastCompleted |-> Undefined]
       IN InsertTasks_Twice([s EXCEPT !.idCounter.Task = id + 1,
                                      !.tasks = @ \cup {task(id), task(id + 1)}],
                            Tail(docIds))

RECURSIVE InsertTasks(_, _)
\* The docs.forEach of addWorkspace: one audit Task per Document, no dependencies.
InsertTasks(s, docIds) ==
  IF docIds = <<>> THEN s
  ELSE LET id == s.idCounter.Task + 1
           task == [id |-> id, operation |-> "audit", documentId |-> Head(docIds),
                    dependencyIds |-> {}, lastCompleted |-> Undefined]
       IN InsertTasks([s EXCEPT !.idCounter.Task = id, !.tasks = @ \cup {task}],
                      Tail(docIds))

\* addWorkspace
AddWorkspaceIn(s, uri) ==
  LET wid == s.idCounter.Workspace + 1
      s1 == [s EXCEPT !.idCounter.Workspace = wid]
  IN IF HasWorkspaceUri(s.workspaces, uri)
     THEN [s1 EXCEPT !.threw = TRUE]
     ELSE LET s2 == [s1 EXCEPT !.workspaces = @ \cup {[id |-> wid, uri |-> uri]},
                               !.wsCache = @ @@ (wid :> EmptyCache)]
              paths == IF WorkspaceType(uri) = "single-file"
                       THEN <<uri>>
                       ELSE resolveWorkspaceDocuments(uri)
              s3 == InsertDocuments(s2, uri, wid, paths)
          IN IF s3.threw THEN s3
             ELSE InsertTasks(s3, SetToSortedSeq({d.id : d \in WorkspaceDocuments(s3, wid)}))

\* if (this.store.workspaces.by('uri', wsUri) === undefined) this.addWorkspace(wsUri)
EnsureWorkspace(s, wsUri) ==
  IF HasWorkspaceUri(s.workspaces, wsUri) THEN s ELSE AddWorkspaceIn(s, wsUri)

RECURSIVE DropDocuments(_, _)
DropDocuments(s, docIds) ==
  IF docIds = <<>> THEN s
  ELSE DropDocuments(DropDocumentIn(s, Head(docIds)), Tail(docIds))

\* dropWorkspace, on a stored workspace
DropWorkspaceIn(s, wid) ==
  LET s1 == DropDocuments(s, SetToSortedSeq({d.id : d \in WorkspaceDocuments(s, wid)}))
  IN [s1 EXCEPT !.workspaces = {w \in @ : w.id # wid},
                !.wsCache = [w \in DOMAIN @ \ {wid} |-> @[w]]]

\* Document.auditTask
HasAuditTask(s, docId) ==
  \E t \in s.tasks : t.documentId = docId /\ t.operation = "audit"
AuditTask(s, docId) ==
  CHOOSE t \in s.tasks : t.documentId = docId /\ t.operation = "audit"

\* analyzeDocument(uri, false) / getDiagnostics: submit the document's audit task.
AnalyzeNow(s, uri) ==
  IF ~HasDocumentUri(s.documents, uri) THEN [s EXCEPT !.threw = TRUE]
  ELSE LET doc == DocumentByUri(s.documents, uri)
       IN IF ~HasAuditTask(s, doc.id) THEN [s EXCEPT !.threw = TRUE]
          ELSE SubmitTaskRec(s, AuditTask(s, doc.id).id)

\* documents.update(doc) after a change of one field
SetDocument(s, doc, new) == [s EXCEPT !.documents = (@ \ {doc}) \cup {new}]

\* onDidOpenTextDocument
OnDidOpenTextDocument(s, uri) ==
  LET s1 == EnsureWorkspace(s, resolveDocumentWorkspace(uri))
  IN IF s1.threw THEN s1
     ELSE IF ~HasDocumentUri(s1.documents, uri) THEN [s1 EXCEPT !.threw = TRUE]
     ELSE LET doc == DocumentByUri(s1.documents, uri)
              s2 == SetDocument(s1, doc, [doc EXCEPT !.state = "editing"])
          IN AnalyzeNow(s2, uri)

\* onDidChangeTextDocument, up to the debounced analyzeDocument
OnDidChangeTextDocument(s, uri, text) ==
  IF ~HasDocumentUri(s.documents, uri) THEN [s EXCEPT !.threw = TRUE]
  ELSE LET doc == DocumentByUri(s.documents, uri)
           s1 == SetDocument(s, doc, [doc EXCEPT !.text = text])
       IN ClearCache(s1, doc.workspaceId)

\* onDidCloseTextDocument
OnDidCloseTextDocument(s, uri) ==
  IF ~HasDocumentUri(s.documents, uri) THEN [s EXCEPT !.threw = TRUE]
  ELSE LET doc == DocumentByUri(s.documents, uri)
           ws == CHOOSE w \in s.workspaces : w.id = doc.workspaceId
       IN IF WorkspaceType(ws.uri) = "single-file"
          THEN IF HasWorkspaceUri(s.workspaces, uri)
               THEN DropWorkspaceIn(s, WorkspaceByUri(s.workspaces, uri).id)
               ELSE [s EXCEPT !.threw = TRUE]
          ELSE LET noRemainingDocsOpen ==
                     \A idoc \in WorkspaceDocuments(s, ws.id) :
                       idoc.uri = uri \/ doc.state = "indexing"
               IN IF noRemainingDocsOpen
                  THEN DropWorkspaceIn(s, ws.id)
                  ELSE SetDocument(s, doc, [doc EXCEPT !.state = "indexing"])

\* Workspace.index: the document at <workspace uri>/index.rst
HasIndex(s, ws) == HasDocumentUri(s.documents, "W/index.rst") /\ ws.uri = "W"

\* The custom requests audit, getReferences and getOutline (scope workspace)
OnCustomRequest(s, method, uri) ==
  LET s1 == EnsureWorkspace(s, resolveDocumentWorkspace(uri))
  IN IF s1.threw THEN s1
     ELSE IF method = "audit" THEN AnalyzeNow(s1, uri)
     ELSE LET ws == WorkspaceByUri(s1.workspaces, resolveDocumentWorkspace(uri))
              key == IF method = "getReferences" THEN "referencesByKey" ELSE "sectionTree"
          IN IF method = "getOutline" /\ ~HasIndex(s1, ws)
             THEN [s1 EXCEPT !.threw = TRUE]
             ELSE LET s2 == Memoize(s1, ws.id, key)
                  IN [s2 EXCEPT !.ret = [op |-> "read", ws |-> ws.id, key |-> key]]

RECURSIVE RenameTargets(_, _, _)
\* The loop of onRename over the target documents: an indexing document is
\* updated in its buffer and saved to disk.
RenameTargets(s, docIds, newName) ==
  IF docIds = <<>> THEN s
  ELSE LET idoc == DocumentById(s.documents, Head(docIds))
           s1 == IF idoc.state = "indexing"
                 THEN [SetDocument(s, idoc, [idoc EXCEPT !.text = newName])
                         EXCEPT !.disk[idoc.uri] = newName]
                 ELSE s
       IN RenameTargets(s1, Tail(docIds), newName)

\* onRename of the symbol of document uri; symType is the kind of symbol
\* under the cursor.
OnRename(s, uri, symType, newName) ==
  IF ~HasDocumentUri(s.documents, uri) THEN [s EXCEPT !.threw = TRUE]
  ELSE LET doc == DocumentByUri(s.documents, uri)
           s1 == IF symType = "section-citekey"
                 THEN Memoize(s, doc.workspaceId, "sectionsByCitekey")
                 ELSE s
           targets == {d \in WorkspaceDocuments(s1, doc.workspaceId) : d.text = doc.text}
           s2 == RenameTargets(s1, SetToSortedSeq({d.id : d \in targets}), newName)
       IN [s2 EXCEPT !.ret =
             [op |-> "rename", ws |-> doc.workspaceId,
              edits |-> {d.uri : d \in {t \in targets : t.state = "editing"}},
              written |-> {d.uri : d \in {t \in targets : t.state = "indexing"}}]]

\* ---------------------------------------------------------------- actions

\* TaskManager.submitTask(task), called on a stored task.
SubmitTask(tid) ==
  /\ HasTask(tasks, tid)
  /\ LET s == SubmitTaskRec(Cur, tid)
     IN /\ s.idCounter.Job <= MaxJobs
        /\ Install(s)
  /\ UNCHANGED <<open, timers>>

\* TaskManager.cancelJob(jobId), called with the id of a stored job or with
\* the id the next job will be given.
CancelJob(jobId) ==
  /\ jobId = idCounter.Job + 1 \/ \E j \in jobs : j.id = jobId
  /\ Install([CancelJobIn(Cur, jobId) EXCEPT !.ret = Void])
  /\ UNCHANGED <<open, timers>>

\* The awaited analysis of a running job settles and processJob resumes.
Complete(jobId) ==
  /\ jobId \in DOMAIN proc
  /\ proc[jobId].pc = "running"
  /\ Install([ProcessJobResume(Cur, jobId) EXCEPT !.ret = Void])
  /\ UNCHANGED <<open, timers>>

\* Server.dropDocument(doc), called on a stored document.
DropDocument(docId) ==
  /\ HasDocument(documents, docId)
  /\ Install([DropDocumentIn(Cur, docId) EXCEPT !.ret = Void])
  /\ UNCHANGED <<open, timers>>

\* What a handler leaves in ret: its own result, or the error it threw.
Result(s) == IF s.threw THEN [s EXCEPT !.ret = [op |-> "error"]] ELSE s
Done(s) == IF s.threw THEN [s EXCEPT !.ret = [op |-> "error"]] ELSE [s EXCEPT !.ret = Void]
WithinCaps(s) ==
  /\ s.idCounter.Job <= MaxServerJobs
  /\ s.idCounter.Workspace <= MaxWorkspaces

\* The editor opens a document.
DidOpen(uri) ==
  /\ uri \notin open
  /\ LET s == OnDidOpenTextDocument(Cur, uri)
     IN WithinCaps(s) /\ Install(Done(s))
  /\ open' = open \cup {uri}
  /\ UNCHANGED timers

\* The editor edits an open document.
DidChange(uri, text) ==
  /\ uri \in open
  /\ LET s == OnDidChangeTextDocument(Cur, uri, text)
     IN /\ Install(IF s.threw THEN Done(s)
                   ELSE [s EXCEPT !.ret = [op |-> "didChange",
                                           ws |-> DocumentByUri(s.documents, uri).workspaceId]])
        /\ timers' = IF s.threw THEN timers ELSE timers \cup {uri}
  /\ UNCHANGED open

\* The quiet period of a document's debouncer ends.
DebounceFire(uri) ==
  /\ uri \in timers
  /\ LET s == AnalyzeNow(Cur, uri)
     IN WithinCaps(s) /\ Install(Done(s))
  /\ timers' = timers \ {uri}
  /\ UNCHANGED open

\* The editor closes an open document.
DidClose(uri) ==
  /\ uri \in open
  /\ LET s == OnDidCloseTextDocument(Cur, uri)
     IN Install(IF s.threw THEN Done(s)
                ELSE [s EXCEPT !.ret = [op |-> "didClose", uri |-> uri]])
  /\ open' = open \ {uri}
  /\ UNCHANGED timers

\* workspace/didChangeWorkspaceFolders with one folder added.
AddFolder(wsUri) ==
  /\ LET s == AddWorkspaceIn(Cur, wsUri)
     IN /\ WithinCaps(s)
        /\ Install(IF s.threw THEN Done(s)
                   ELSE [s EXCEPT !.ret = [op |-> "addWorkspace", uri |-> wsUri]])
  /\ UNCHANGED <<open, timers>>

\* workspace/didChangeWorkspaceFolders with one folder removed.
RemoveFolder(wsUri) ==
  /\ LET s == IF HasWorkspaceUri(workspaces, wsUri)
              THEN DropWorkspaceIn(Cur, WorkspaceByUri(workspaces, wsUri).id)
              ELSE [Cur EXCEPT !.threw = TRUE]
     IN Install(Done(s))
  /\ UNCHANGED <<open, timers>>

\* The custom requests.
CustomRequest(method, uri) ==
  /\ LET s == OnCustomRequest(Cur, method, uri)
     IN WithinCaps(s) /\ Install(Result(s))
  /\ UNCHANGED <<open, timers>>

\* The editor renames the symbol under the cursor in an open document.
Rename(uri, symType, newName) ==
  /\ uri \in open
  /\ Install(Result(OnRename(Cur, uri, symType, newName)))
  /\ UNCHANGED <<open, timers>>

\* ----------------------------------------------------- scheduler in isolation

\* The dependency graphs the scheduler is run on (task -> dependencyIds), all
\* acyclic: one dependency in either id order (the third task unrelated), a
\* chain, a task with two dependencies, and two tasks sharing one dependency.
TaskIds == {1, 2, 3}
Graph(d1, d2, d3) == (1 :> d1) @@ (2 :> d2) @@ (3 :> d3)
DependencyGraphs ==
  {Graph({}, {1}, {}), Graph({2}, {}, {}),
   Graph({}, {1}, {2}), Graph({}, {}, {1, 2}), Graph({3}, {3}, {})}

\* The store after both workspaces were added, with the tasks' dependencies
\* chosen freely.
SchedInit ==
  /\ workspaces = {[id |-> 1, uri |-> "W"], [id |-> 2, uri |-> "S.rst"]}
  /\ documents =
       {[id |-> 1, uri |-> "W/b.rst", workspaceId |-> 1, state |-> "indexing", text |-> "x"],
        [id |-> 2, uri |-> "W/index.rst", workspaceId |-> 1, state |-> "indexing", text |-> "x"],
        [id |-> 3, uri |-> "S.rst", workspaceId |-> 2, state |-> "editing", text |-> "x"]}
  /\ \E g \in DependencyGraphs :
       tasks = {[id |-> t, operation |-> "audit", documentId |-> t,
                 dependencyIds |-> g[t], lastCompleted |-> Undefined] : t \in TaskIds}
  /\ jobs = {}
  /\ idCounter = [Workspace |-> 2, Document |-> 3, Task |-> 3, Job |-> 0]
  /\ priorityQueue = <<>>
  /\ cancelled = {}
  /\ proc = <<>>
  /\ promise = <<>>
  /\ wsCache = [w \in {1, 2} |-> EmptyCache]
  /\ disk = [u \in DocumentUris |-> "x"]
  /\ open = {}
  /\ timers = {}
  /\ ret = Void
  /\ NoBuffer

SchedNext ==
  \/ \E t \in TaskIds : SubmitTask(t)
  \/ \E j \in 1..MaxJobs : CancelJob(j)
  \/ \E j \in 1..MaxJobs : Complete(j)
  \/ \E d \in TaskIds : DropDocument(d)

SchedSpec == SchedInit /\ [][SchedNext]_vars

\* ------------------------------------------------------------- the server

Init ==
  /\ workspaces = {}
  /\ documents = {}
  /\ tasks = {}
  /\ jobs = {}
  /\ idCounter = [Workspace |-> 0, Document |-> 0, Task |-> 0, Job |-> 0]
  /\ priorityQueue = <<>>
  /\ cancelled = {}
  /\ proc = <<>>
  /\ promise = <<>>
  /\ wsCache = <<>>
  /\ disk = [u \in DocumentUris |-> "x"]
  /\ open = {}
  /\ timers = {}
  /\ ret = Void
  /\ NoBuffer

Next ==
  \/ \E u \in DocumentUris : DidOpen(u)
  \/ \E u \in DocumentUris, t \in Names : DidChange(u, t)
  \/ \E u \in DocumentUris : DebounceFire(u)
  \/ \E u \in DocumentUris : DidClose(u)
  \/ \E w \in FolderUris : AddFolder(w)
  \/ \E w \in FolderUris : RemoveFolder(w)
  \/ \E m \in {"audit", "getReferences", "getOutline"}, u \in DocumentUris :
       CustomRequest(m, u)
  \/ \E u \in DocumentUris, k \in {"reference-citekey", "section-citekey"}, n \in Names :
       Rename(u, k, n)
  \/ \E j \in 1..MaxServerJobs : Complete(j)

Spec == Init /\ [][Next]_vars

\* The scheduler with no cancelJob other than dropDocument's, under the
\* fairness the event loop gives: a suspended execution is resumed once the
\* analysis it awaits has settled, and every external call settles.
LiveSchedNext ==
  \/ \E t \in TaskIds : SubmitTask(t)
  \/ \E j \in 1..MaxJobs : Complete(j)
  \/ \E d \in TaskIds : DropDocument(d)

LiveSchedSpec ==
  SchedInit /\ [][LiveSchedNext]_vars /\ \A j \in 1..MaxJobs : WF_vars(Complete(j))

\* ---------------------------------------------------------- the text buffer

\* The characters of a buffer: carriage return, line feed and a letter that
\* stands for every other character.
CR == "CR"
LF == "LF"
Chars == {"a", CR, LF}

RECURSIVE TextsOfLength(_)
TextsOfLength(n) ==
  IF n = 0 THEN {<<>>}
  ELSE {<<c>> \o t : c \in Chars, t \in TextsOfLength(n - 1)}
Texts == UNION {TextsOfLength(n) : n \in 0..MaxLen}

\* Positions, in range or not.
Positions == [line : -1..(MaxLen + 1), character : -1..(MaxLen + 1)]

Max(a, b) == IF a >= b THEN a ELSE b
Min(a, b) == IF a <= b THEN a ELSE b

RECURSIVE LineOffsetsFrom(_, _, _)
\* The loop of computeLineOffsets from index i (0-based): the offset after
\* each CR, LF or CRLF.
LineOffsetsFrom(text, i, textOffset) ==
  IF i >= Len(text) THEN <<>>
  ELSE LET ch == text[i + 1]
       IN IF ch = CR \/ ch = LF
          THEN LET k == IF ch = CR /\ i + 1 < Len(text) /\ text[i + 2] = LF
                        THEN i + 1 ELSE i
               IN <<textOffset + k + 1>> \o LineOffsetsFrom(text, k + 1, textOffset)
          ELSE LineOffsetsFrom(text, i + 1, textOffset)

computeLineOffsets(text, isAtLineStart, textOffset) ==
  (IF isAtLineStart THEN <<textOffset>> ELSE <<>>) \o LineOffsetsFrom(text, 0, textOffset)

\* getLineOffsets: the stored offsets, computed on first use; an undefined
\* _lineOffsets is the empty sequence (computed offsets are never empty).
getLineOffsets(d) ==
  IF d.lineOffsets = <<>> THEN computeLineOffsets(d.content, TRUE, 0) ELSE d.lineOffsets

\* The buffer after a call that went through getLineOffsets.
WithLineOffsets(d) == [d EXCEPT !.lineOffsets = getLineOffsets(d)]

RECURSIVE LeastAbove(_, _, _, _)
\* The binary search of positionAt: the least index (0-based) whose line
\* offset is larger than ioffset, or the length.
LeastAbove(lineOffsets, low, high, ioffset) ==
  IF low < high
  THEN LET mid == (low + high) \div 2
       IN IF lineOffsets[mid + 1] > ioffset
          THEN LeastAbove(lineOffsets, low, mid, ioffset)
          ELSE LeastAbove(lineOffsets, mid + 1, high, ioffset)
  ELSE low

positionAt(d, offset) ==
  LET ioffset == Max(Min(offset, Len(d.content)), 0)
      lineOffsets == getLineOffsets(d)
      high == Len(lineOffsets)
  IN IF high = 0 THEN [line |-> 0, character |-> ioffset]
     ELSE LET line == LeastAbove(lineOffsets, 0, high, ioffset) - 1
          IN [line |-> line, character |-> ioffset - lineOffsets[line + 1]]

\* An offsetAt that would count characters from one.
offsetAt_OneBased(d, position) ==
  LET lineOffsets == getLineOffsets(d)
  IN IF position.line >= Len(lineOffsets) THEN Len(d.content)
     ELSE IF position.line < 0 THEN 0
     ELSE LET lineOffset == lineOffsets[position.line + 1]
              nextLineOffset == IF position.line + 1 < Len(lineOffsets)
                                THEN lineOffsets[position.line + 2]
                                ELSE Len(d.content)
          IN Max(Min(lineOffset + position.character + 1, nextLineOffset), lineOffset)

\* offsetAt
offsetAt(d, position) ==
  LET lineOffsets == getLineOffsets(d)
  IN IF position.line >= Len(lineOffsets) THEN Len(d.content)
     ELSE IF position.line < 0 THEN 0
     ELSE LET lineOffset == lineOffsets[position.line + 1]
              nextLineOffset == IF position.line + 1 < Len(lineOffsets)
                                THEN lineOffsets[position.line + 2]
                                ELSE Len(d.content)
          IN Max(Min(lineOffset + position.character, nextLineOffset), lineOffset)

\* A getWellformedRange that would hand the range back as it is.
getWellformedRange_AsGiven(range) == range

\* getWellformedRange: start before end.
getWellformedRange(range) ==
  IF \/ range.start.line > range.end.line
     \/ (range.start.line = range.end.line /\ range.start.character > range.end.character)
  THEN [start |-> range.end, end |-> range.start]
  ELSE range

\* A change event as received: whether it has a string text and a range, and
\* what its rangeLength is ("undefined", "number" or "other").
isIncremental(change) ==
  change.hasText /\ change.hasRange /\ change.rangeLength \in {"undefined", "number"}
isFull(change) ==
  change.hasText /\ ~change.hasRange /\ change.rangeLength = "undefined"

\* Array.prototype.splice(start, deleteCount, ...items), 0-based.
Splice(arr, start, deleteCount, items) ==
  LET st == Min(start, Len(arr))
      dc == Max(Min(deleteCount, Len(arr) - st), 0)
  IN SubSeq(arr, 1, st) \o items \o SubSeq(arr, st + dc + 1, Len(arr))

\* One incremental change applied to the buffer: content, line offsets and
\* the edit of the tree (which stays the same tree object).
ApplyIncremental(d, change) ==
  LET range == getWellformedRange(change.range)
      d0 == WithLineOffsets(d)
      startOffset == offsetAt(d0, range.start)
      endOffset == offsetAt(d0, range.end)
      content == SubSeq(d0.content, 1, startOffset) \o change.text
                   \o SubSeq(d0.content, endOffset + 1, Len(d0.content))
      startLine == Max(range.start.line, 0)
      endLine == Max(range.end.line, 0)
      added == computeLineOffsets(change.text, FALSE, startOffset)
      lo1 == IF endLine - startLine = Len(added)
             THEN [i \in 1..Len(d0.lineOffsets) |->
                     IF i - 1 >= startLine + 1 /\ i - 1 <= startLine + Len(added)
                     THEN added[i - 1 - startLine]
                     ELSE d0.lineOffsets[i]]
             ELSE Splice(d0.lineOffsets, startLine + 1, endLine - startLine, added)
      diff == Len(change.text) - (endOffset - startOffset)
      lo2 == [i \in 1..Len(lo1) |->
                IF i - 1 >= startLine + 1 + Len(added) THEN lo1[i] + diff ELSE lo1[i]]
  IN [d0 EXCEPT !.content = content, !.lineOffsets = lo2]

RECURSIVE ApplyChanges(_, _)
\* The changes.forEach of update: the buffer after the changes up to the
\* first one that is of neither shape, and whether there was such a change.
ApplyChanges(d, changes) ==
  IF changes = <<>> THEN [doc |-> d, threw |-> FALSE]
  ELSE LET change == Head(changes)
       IN IF isIncremental(change)
          THEN ApplyChanges(ApplyIncremental(d, change), Tail(changes))
          ELSE IF isFull(change)
          THEN ApplyChanges([d EXCEPT !.content = change.text, !.lineOffsets = <<>>],
                            Tail(changes))
          ELSE [doc |-> d, threw |-> TRUE]

\* FullTextDocument.update
TextDocumentUpdate_AdvanceOnError(d, changes, version) ==
  [doc |-> [ApplyChanges(d, changes).doc EXCEPT !.version = version],
   threw |-> ApplyChanges(d, changes).threw]
TextDocumentUpdate(d, changes, version) ==
  LET r == ApplyChanges(d, changes)
  IN IF r.threw THEN r
     ELSE [doc |-> [r.doc EXCEPT !.tree = @ + 1, !.version = version], threw |-> FALSE]

\* FullTextDocument.reparse: a new tree of the same content.
TextDocumentReparse(d) == [d EXCEPT !.tree = @ + 1]

\* The memoized fact getters of Document that the model follows, and the
\* value of one: the facts hold nodes of the tree they were extracted from.
FactNames == {"sections", "referenceListings"}
NoFacts == [tree |-> 0]
ExtractFacts(d) == [tree |-> d.tree]

\* A memoized getter of Document read through the memoizer.
MemoizeFacts(cache, d, name) ==
  IF cache[name] = NoFacts THEN [cache EXCEPT ![name] = ExtractFacts(d)] ELSE cache

\* Document.clearCache
DocumentClearCache(cache) == [n \in FactNames |-> NoFacts]

\* The change events tried on a buffer: incremental ones whose range lies on
\* lines of the buffer, full ones, and events of neither shape.
ChangeTexts == TextsOfLength(0) \cup TextsOfLength(1)
NoRange == [start |-> [line |-> 0, character |-> 0], end |-> [line |-> 0, character |-> 0]]
LinePositions(d) ==
  {p \in Positions : /\ p.line \in 0..(Len(getLineOffsets(d)) - 1)
                     /\ p.character \in 0..MaxLen}
IncrementalChanges(d) ==
  {[hasText |-> TRUE, text |-> t, hasRange |-> TRUE,
    range |-> [start |-> p, end |-> q], rangeLength |-> "undefined"] :
     t \in ChangeTexts, p \in LinePositions(d), q \in LinePositions(d)}
FullChanges ==
  {[hasText |-> TRUE, text |-> t, hasRange |-> FALSE, range |-> NoRange,
    rangeLength |-> "undefined"] : t \in ChangeTexts}
UnknownChanges ==
  {[hasText |-> FALSE, text |-> <<>>, hasRange |-> TRUE, range |-> NoRange,
    rangeLength |-> "undefined"],
   [hasText |-> TRUE, text |-> <<"a">>, hasRange |-> FALSE, range |-> NoRange,
    rangeLength |-> "number"],
   [hasText |-> TRUE, text |-> <<"a">>, hasRange |-> TRUE, range |-> NoRange,
    rangeLength |-> "other"]}
ChangeLists(d) ==
  {<<c>> : c \in IncrementalChanges(d) \cup FullChanges \cup UnknownChanges}
    \cup {<<c, u>> : c \in FullChanges, u \in UnknownChanges}
    \cup {<<u, c>> : u \in UnknownChanges, c \in FullChanges}

\* Whether one of the changes is of neither shape.
HasUnknownChange(changes) ==
  \E i \in 1..Len(changes) : ~isIncremental(changes[i]) /\ ~isFull(changes[i])

\* Document.update(version, changes): the buffer's update, then clearCache.
DocumentUpdate(changes) ==
  /\ tsDoc.tree >= MaxParses => HasUnknownChange(changes)
  /\ LET r == TextDocumentUpdate(tsDoc, changes, tsDoc.version + 1)
     IN /\ Len(r.doc.content) <= MaxLen
        /\ tsDoc' = r.doc
        /\ docCache' = IF r.threw THEN docCache ELSE DocumentClearCache(docCache)
        /\ out' = [op |-> "update", threw |-> r.threw, before |-> tsDoc.version,
                   unknown |-> HasUnknownChange(changes)]
  /\ UNCHANGED <<serverVars, timeVars, facts>>

\* Document.reparse()
DocumentReparse ==
  /\ tsDoc.tree < MaxParses
  /\ tsDoc' = TextDocumentReparse(tsDoc)
  /\ out' = [op |-> "reparse"]
  /\ UNCHANGED <<docCache, serverVars, timeVars, facts>>

\* A read of a memoized fact list of the document.
DocumentRead(name) ==
  /\ docCache' = MemoizeFacts(docCache, tsDoc, name)
  /\ out' = [op |-> "read", name |-> name]
  /\ UNCHANGED <<tsDoc, serverVars, timeVars, facts>>

\* offsetAt(positionAt(offsetAt(p))) beside offsetAt(p).
RoundTrip(p) ==
  /\ LET d == WithLineOffsets(tsDoc)
         first == offsetAt(d, p)
     IN /\ tsDoc' = d
        /\ out' = [op |-> "roundTrip", first |-> first,
                   second |-> offsetAt(d, positionAt(d, first))]
  /\ UNCHANGED <<docCache, serverVars, timeVars, facts>>

\* A buffer just created from any text, in an otherwise empty server.
BufferInit ==
  /\ workspaces = {}
  /\ documents = {}
  /\ tasks = {}
  /\ jobs = {}
  /\ idCounter = [Workspace |-> 0, Document |-> 0, Task |-> 0, Job |-> 0]
  /\ priorityQueue = <<>>
  /\ cancelled = {}
  /\ proc = <<>>
  /\ promise = <<>>
  /\ wsCache = <<>>
  /\ disk = [u \in DocumentUris |-> "x"]
  /\ open = {}
  /\ timers = {}
  /\ ret = Void
  /\ tsDoc \in {[content |-> t, lineOffsets |-> <<>>, version |-> 0, tree |-> 1] :
                  t \in Texts}
  /\ docCache = [n \in FactNames |-> NoFacts]
  /\ out = Void
  /\ now = 0
  /\ debouncers = <<>>
  /\ edits = <<>>
  /\ facts = <<>>

BufferNext ==
  \/ \E changes \in ChangeLists(tsDoc) : DocumentUpdate(changes)
  \/ DocumentReparse
  \/ \E n \in FactNames : DocumentRead(n)
  \/ \E p \in Positions : RoundTrip(p)

BufferSpec == BufferInit /\ [][BufferNext]_vars

\* ------------------------------------------------------------ the debouncers

\* The documents that are edited.
EditedUris == {"W/b.rst", "W/index.rst"}

\* The key under which getDebouncer keeps a document's subject.
DebouncerOf_Shared(uri) == "W/b.rst"
DebouncerOf(uri) == uri

\* getDebouncer(uri).next(): the subject is created on first use, and every
\* value restarts its debounceTime timer.
DebouncerNext(ds, uri) ==
  IF DebouncerOf(uri) \in DOMAIN ds
  THEN [ds EXCEPT ![DebouncerOf(uri)] = now + QuietPeriod]
  ELSE ds @@ (DebouncerOf(uri) :> (now + QuietPeriod))

NoEdits == [last |-> 0, pending |-> 0]
EditsOf(uri) == IF uri \in DOMAIN edits THEN edits[uri] ELSE NoEdits

\* analyzeDocument(uri), debounced: the tail of onDidChangeTextDocument.
Edit(uri) ==
  /\ EditsOf(uri).pending < MaxEdits
  /\ debouncers' = DebouncerNext(debouncers, uri)
  /\ edits' = [u \in DOMAIN edits \cup {uri} |->
                 IF u = uri THEN [last |-> now, pending |-> EditsOf(uri).pending + 1]
                 ELSE edits[u]]
  /\ ret' = [op |-> "edit", uri |-> uri]
  /\ UNCHANGED <<now, workspaces, documents, tasks, jobs, idCounter, priorityQueue,
                 cancelled, proc, promise, wsCache, disk, open, timers, bufferVars, facts>>

\* The timer of a debouncer expires: its subscriber calls
\* analyzeDocument(uri, false) for the uri the subject was created for.
TimerFires(key) ==
  /\ key \in DOMAIN debouncers
  /\ debouncers[key] # 0
  /\ debouncers[key] = now
  /\ debouncers' = [debouncers EXCEPT ![key] = 0]
  /\ edits' = [u \in DOMAIN edits \cup {key} |->
                 IF u = key THEN [EditsOf(key) EXCEPT !.pending = 0] ELSE edits[u]]
  /\ ret' = [op |-> "analyze", uri |-> key, at |-> now,
             last |-> EditsOf(key).last, coalesced |-> EditsOf(key).pending]
  /\ UNCHANGED <<now, workspaces, documents, tasks, jobs, idCounter, priorityQueue,
                 cancelled, proc, promise, wsCache, disk, open, timers, bufferVars, facts>>

\* Time passes, but not past a pending timer.
Tick ==
  /\ now < MaxTime
  /\ \A key \in DOMAIN debouncers : debouncers[key] = 0 \/ debouncers[key] > now
  /\ now' = now + 1
  /\ ret' = Void
  /\ UNCHANGED <<debouncers, edits, workspaces, documents, tasks, jobs, idCounter,
                 priorityQueue, cancelled, proc, promise, wsCache, disk, open, timers,
                 bufferVars, facts>>

DebounceInit == Init

DebounceNext ==
  \/ \E u \in EditedUris : Edit(u)
  \/ \E u \in EditedUris : TimerFires(u)
  \/ Tick

DebounceSpec == DebounceInit /\ [][DebounceNext]_vars

\* ------------------------------------------------------------- the auditor

\* The diagnostic passes of DocumentAuditor.run, in the order they are run.
AuditPasses ==
  <<"getSyntaxErrors", "getMissingReferenceCitations", "getMissingSectionCitations",
    "getBrokenReferenceCitations", "getBrokenImageReferences",
    "getBrokenSectionCitations", "getBrokenIncludes",
    "getBrokenOrStaleReferenceKeys", "getUndefinedDirectives">>

\* The pass that awaits the external key lookup (db.getKey).
KeyPass == "getBrokenOrStaleReferenceKeys"

\* How the key lookup of an audit ends: not made (no record key in the
\* document), answered, or failed.
KeyCalls == {"none", "ok", "error"}

RECURSIVE RunPasses(_, _, _)
\* The body of run's try block from the given pass on: each pass pushes its
\* diagnostics (one, named after the pass, when it finds something); a pass
\* that throws ends the block.
RunPasses(passes, found, keyCall) ==
  IF passes = <<>> THEN <<>>
  ELSE IF Head(passes) = KeyPass /\ keyCall = "error" THEN <<>>
  ELSE (IF Head(passes) \in found THEN <<Head(passes)>> ELSE <<>>)
         \o RunPasses(Tail(passes), found, keyCall)

\* DocumentAuditor.run
DocumentAuditorRun(found, keyCall) == RunPasses(AuditPasses, found, keyCall)

\* The analysis of a running job ends with the diagnostics of run(), and
\* processJob resumes.
AuditCompletes(jobId, found, keyCall) ==
  /\ jobId \in DOMAIN proc
  /\ proc[jobId].pc = "running"
  /\ Install([ProcessJobResume(Cur, jobId) EXCEPT
                !.ret = [op |-> "audit", job |-> jobId, found |-> found,
                         keyCall |-> keyCall,
                         diagnostics |-> DocumentAuditorRun(found, keyCall)]])
  /\ UNCHANGED <<open, timers>>

\* The store after addWorkspace of the single file.
AuditInit ==
  /\ workspaces = {[id |-> 1, uri |-> "S.rst"]}
  /\ documents = {[id |-> 1, uri |-> "S.rst", workspaceId |-> 1, state |-> "editing",
                   text |-> "x"]}
  /\ tasks = {[id |-> 1, operation |-> "audit", documentId |-> 1,
               dependencyIds |-> {}, lastCompleted |-> Undefined]}
  /\ jobs = {}
  /\ idCounter = [Workspace |-> 1, Document |-> 1, Task |-> 1, Job |-> 0]
  /\ priorityQueue = <<>>
  /\ cancelled = {}
  /\ proc = <<>>
  /\ promise = <<>>
  /\ wsCache = [w \in {1} |-> EmptyCache]
  /\ disk = [u \in DocumentUris |-> "x"]
  /\ open = {"S.rst"}
  /\ timers = {}
  /\ ret = Void
  /\ NoBuffer

AuditNext ==
  \/ SubmitTask(1)
  \/ \E j \in 1..MaxJobs, found \in SUBSET {AuditPasses[i] : i \in 1..Len(AuditPasses)},
        keyCall \in KeyCalls :
       AuditCompletes(j, found, keyCall)

AuditSpec == AuditInit /\ [][AuditNext]_vars

\* ------------------------------------------------------------ reference keys

\* A key is a sequence of characters.
Space == " "
Tab == "\t"
Dot == "."
Slash == "/"
LowerCase == {"a", "b", "c", "d", "e", "f", "g", "h", "i", "j", "k", "l", "m",
              "n", "o", "p", "q", "r", "s", "t", "u", "v", "w", "x", "y", "z"}

\* String.prototype.includes for one character.
Includes(key, c) == \E i \in 1..Len(key) : key[i] = c

\* String.prototype.slice(0, n)
SliceTo(key, n) == SubSeq(key, 1, Min(n, Len(key)))

\* /^https?:\/\//
MatchesWeb(key) ==
  \/ SliceTo(key, 7) = <<"h", "t", "t", "p", ":", "/", "/">>
  \/ SliceTo(key, 8) = <<"h", "t", "t", "p", "s", ":", "/", "/">>

\* The index at which a run of [^. ] that starts at index from ends: the first
\* index from there on that holds a dot or a space, or one past the key.
RunEnd(key, from) ==
  LET stops == {i \in from..Len(key) : key[i] \in {Dot, Space}} \cup {Len(key) + 1}
  IN CHOOSE i \in stops : \A j \in stops : i <= j

\* The {8} of the record pattern.
TokenLength == 8

\* /^[^. ]+\.[^. ]+\.[a-z]{8}/ : the pattern has no end anchor.
MatchesRecord(key) ==
  LET e1 == RunEnd(key, 1)
      e2 == RunEnd(key, e1 + 1)
  IN /\ e1 > 1 /\ e1 <= Len(key) /\ key[e1] = Dot
     /\ e2 > e1 + 1 /\ e2 <= Len(key) /\ key[e2] = Dot
     /\ Len(key) >= e2 + TokenLength
     /\ \A i \in (e2 + 1)..(e2 + TokenLength) : key[i] \in LowerCase

\* Reference.type
ReferenceType(key) ==
  IF Includes(key, Space) THEN "unknown"
  ELSE IF SliceTo(key, 5) = <<"m", "a", "i", "l", ":">> THEN "mail"
  ELSE IF SliceTo(key, 1) = <<Slash>> THEN "media"
  ELSE IF MatchesWeb(key) THEN "web"
  ELSE IF MatchesRecord(key) THEN "record"
  ELSE "unknown"

\* The keys classified: a prefix, a stem of dot-separated segments and a last
\* segment, which is a run of one lower-case letter of any length up to
\* MaxToken, as it is or with one of its characters replaced.
MaxToken == 9

KeyPrefixes ==
  { <<>>,
    <<"m", "a", "i", "l", ":">>,
    <<Slash>>,
    <<"h", "t", "t", "p", ":", "/", "/">>,
    <<"h", "t", "t", "p", "s", ":", "/", "/">>,
    <<"h", "t", "t", "p", ":">> }

KeyStems == { <<>>, <<"a", Dot>>, <<"a", Dot, "b", Dot>>, <<Dot, "b", Dot>> }

Replacements == {Space, Tab, Dot, "X", "1"}

Runs == {[i \in 1..n |-> "x"] : n \in (TokenLength - 1)..MaxToken}

KeyTokens ==
  Runs \cup {[r EXCEPT ![i] = c] : r \in Runs, i \in {1, TokenLength - 1, TokenLength}, c \in Replacements}

\* The keys the documentation of the classification gives.
ExampleKeys ==
  { <<"m","a","i","l",":","a","l","i","c","e","@","x",".","c","o","m">>,
    <<"/","i","m","g","/","a",".","p","n","g">>,
    <<"h","t","t","p","s",":","/","/","x",".","c","o","m">>,
    <<"a",".","b",".","a","b","c","d","e","f","g","h">>,
    <<"h","a","s"," ","s","p","a","c","e">> }

Keys == ExampleKeys \cup {p \o s \o k : p \in KeyPrefixes, s \in KeyStems, k \in KeyTokens}

\* Reading the type of a Reference whose key is key.
ReadReferenceType(key) ==
  /\ out' = [op |-> "type", key |-> key, type |-> ReferenceType(key)]
  /\ UNCHANGED <<tsDoc, docCache, serverVars, timeVars, facts>>

\* An idle server, no buffer.
IdleInit ==
  /\ workspaces = {}
  /\ documents = {}
  /\ tasks = {}
  /\ jobs = {}
  /\ idCounter = [Workspace |-> 0, Document |-> 0, Task |-> 0, Job |-> 0]
  /\ priorityQueue = <<>>
  /\ cancelled = {}
  /\ proc = <<>>
  /\ promise = <<>>
  /\ wsCache = <<>>
  /\ disk = [u \in DocumentUris |-> "x"]
  /\ open = {}
  /\ timers = {}
  /\ ret = Void

ReferenceInit == IdleInit /\ NoBuffer

ReferenceNext == \E key \in Keys : ReadReferenceType(key)

ReferenceSpec == ReferenceInit /\ [][ReferenceNext]_vars

\* ---------------------------------------------------------- symbol instances

\* The documents of the workspace, in the order of Workspace.documents.
WorkspaceDocumentUris == <<"W/b.rst", "W/index.rst">>

\* The texts of media-file-path nodes: of a symbol, of a reference listing's
\* key and of an image reference's root.
PathTexts ==
  { <<>>, <<"a">>, <<Slash, "a">>, <<Slash, Slash, "a">>, <<"b">>, <<Slash, "b">> }

\* The fact lists a document's tree can yield: none or one of each kind.
FactLists == {<<>>} \cup {<<p>> : p \in PathTexts}

\* An ensureLeadingSlash that would prefix every text.
ensureLeadingSlash_Always(x) == <<Slash>> \o x

\* ensureLeadingSlash: x[0] of the empty string is undefined.
ensureLeadingSlash(x) == IF Len(x) > 0 /\ x[1] = Slash THEN x ELSE <<Slash>> \o x

\* removeLeadingSlash
removeLeadingSlash(x) == IF Len(x) > 0 /\ x[1] = Slash THEN Tail(x) ELSE x

RECURSIVE FlatMapFacts(_, _, _)
\* this.documents.flatMap(doc => doc[name]): each fact with its document's uri
\* and its node.
FlatMapFacts(f, name, uris) ==
  IF uris = <<>> THEN <<>>
  ELSE LET uri == Head(uris)
       IN [i \in 1..Len(f[uri][name]) |->
             [uri |-> uri, node |-> [fact |-> name, index |-> i, text |-> f[uri][name][i]]]]
          \o FlatMapFacts(f, name, Tail(uris))

\* Workspace.getAllImageReferences
getAllImageReferences(f) == FlatMapFacts(f, "imageReferences", WorkspaceDocumentUris)

\* Workspace.getAllReferenceListings(value, 'key')
getAllReferenceListings(f, value) ==
  LET HasKey(x) == x.node.text = value
  IN SelectSeq(FlatMapFacts(f, "referenceListings", WorkspaceDocumentUris), HasKey)

\* Workspace.getAllSymbolInstances, for a symbol of type media-file-path whose
\* node's text is text.
getAllSymbolInstances(f, text) ==
  LET Instance(x) == [documentUri |-> x.uri, node |-> x.node, type |-> "media-file-path"]
      symSlash == ensureLeadingSlash(text)
      listings == getAllReferenceListings(f, symSlash)
      keyInstances == [i \in DOMAIN listings |-> Instance(listings[i])]
      symNoSlash == removeLeadingSlash(text)
      HasRoot(x) == x.node.text = symNoSlash
      imageRefs == SelectSeq(getAllImageReferences(f), HasRoot)
      imageRefInstances == [i \in DOMAIN imageRefs |-> Instance(imageRefs[i])]
  IN keyInstances \o imageRefInstances

\* A call of getAllSymbolInstances.
GetAllSymbolInstances(text) ==
  /\ out' = [op |-> "instances", text |-> text,
             instances |-> getAllSymbolInstances(facts, text)]
  /\ UNCHANGED <<tsDoc, docCache, serverVars, timeVars, facts>>

\* A workspace whose documents have been parsed.
SymbolInit ==
  /\ IdleInit
  /\ tsDoc = [content |-> <<>>, lineOffsets |-> <<>>, version |-> 0, tree |-> 0]
  /\ docCache = <<>>
  /\ out = Void
  /\ now = 0
  /\ debouncers = <<>>
  /\ edits = <<>>
  /\ facts \in [{WorkspaceDocumentUris[i] : i \in DOMAIN WorkspaceDocumentUris} ->
                  [referenceListings : FactLists, imageReferences : FactLists]]

SymbolNext == \E text \in PathTexts : GetAllSymbolInstances(text)

SymbolSpec == SymbolInit /\ [][SymbolNext]_vars

\* ------------------------------------------------- workspace and file lifecycle

\* The handlers that add and remove workspaces and documents, with two jobs
\* and with the folder P, which has no project-root marker and holds the file
\* S.rst and the folder W: opened on its own, S.rst is a single-file
\* workspace, and the files of W are found under P as well.  A deleted or
\* renamed file may be there again when a folder is next read from disk (the
\* editor's createFile is not acted upon by the server).
MaxLifecycleJobs == 2

LifecycleFolders == {"W", "P"}

LifecycleCaps(s) ==
  /\ s.idCounter.Job <= MaxLifecycleJobs
  /\ s.idCounter.Workspace <= MaxWorkspaces

\* deleteFile: dropDocument(uri)
OnDeleteFile(s, uri) ==
  IF ~HasDocumentUri(s.documents, uri) THEN [s EXCEPT !.threw = TRUE]
  ELSE LET doc == DocumentByUri(s.documents, uri)
       IN [DropDocumentIn(s, doc.id) EXCEPT
             !.ret = [op |-> "removed", uri |-> uri, ws |-> doc.workspaceId]]

\* renameFile, to a uri no stored document has
OnRenameFile(s, oldUri, newUri) ==
  IF ~HasDocumentUri(s.documents, oldUri) THEN [s EXCEPT !.threw = TRUE]
  ELSE LET doc == DocumentByUri(s.documents, oldUri)
           newWsUri == resolveDocumentWorkspace(newUri)
       IN IF \E w \in s.workspaces : w.id = doc.workspaceId /\ w.uri = newWsUri
          THEN [SetDocument(s, doc, [doc EXCEPT !.uri = newUri]) EXCEPT
                  !.ret = [op |-> "renamed", uri |-> oldUri, ws |-> doc.workspaceId]]
          ELSE LET s1 == OnDidOpenTextDocument(DropDocumentIn(s, doc.id), newUri)
               IN [s1 EXCEPT !.ret = [op |-> "removed", uri |-> oldUri,
                                      ws |-> doc.workspaceId]]

OpenDocument(uri) ==
  /\ uri \notin open
  /\ LET s == OnDidOpenTextDocument(Cur, uri)
     IN LifecycleCaps(s) /\ Install(Done(s))
  /\ open' = open \cup {uri}
  /\ UNCHANGED timers

AddWorkspaceFolder(wsUri) ==
  /\ LET s == AddWorkspaceIn(Cur, wsUri)
     IN /\ LifecycleCaps(s)
        /\ Install(IF s.threw THEN Done(s)
                   ELSE [s EXCEPT !.ret = [op |-> "addWorkspace", uri |-> wsUri]])
  /\ UNCHANGED <<open, timers>>

\* The custom requests that read a table of the document's workspace.
ReadTable(method, uri) ==
  /\ LET s == OnCustomRequest(Cur, method, uri)
     IN LifecycleCaps(s) /\ Install(Result(s))
  /\ UNCHANGED <<open, timers>>

\* custom/applyWorkspaceEdit with one deleted file.
DeleteFile(uri) ==
  /\ Install(Result(OnDeleteFile(Cur, uri)))
  /\ UNCHANGED <<open, timers>>

\* custom/applyWorkspaceEdit with one renamed file.
RenameFile(oldUri, newUri) ==
  /\ ~HasDocumentUri(documents, newUri)
  /\ LET s == OnRenameFile(Cur, oldUri, newUri)
     IN LifecycleCaps(s) /\ Install(Result(s))
  /\ UNCHANGED <<open, timers>>

LifecycleNext ==
  \/ \E u \in DocumentUris : OpenDocument(u)
  \/ \E u \in DocumentUris : DidClose(u)
  \/ \E w \in LifecycleFolders : AddWorkspaceFolder(w)
  \/ \E w \in LifecycleFolders : RemoveFolder(w)
  \/ \E u \in DocumentUris : DeleteFile(u)
  \/ \E u, v \in DocumentUris : RenameFile(u, v)
  \/ \E j \in 1..MaxLifecycleJobs : Complete(j)

LifecycleSpec == Init /\ [][LifecycleNext]_vars

\* The reads of the workspace tables, between additions and removals of
\* workspaces and files.
TablesNext ==
  \/ \E w \in LifecycleFolders : AddWorkspaceFolder(w)
  \/ \E w \in LifecycleFolders : RemoveFolder(w)
  \/ \E m \in {"getReferences", "getOutline"}, u \in DocumentUris : ReadTable(m, u)
  \/ \E u \in DocumentUris : DeleteFile(u)
  \/ \E u, v \in DocumentUris : RenameFile(u, v)
  \/ \E j \in 1..MaxLifecycleJobs : Complete(j)

TablesSpec == Init /\ [][TablesNext]_vars

\* ------------------------------------------------- opening of a document

\* new Document(...): TreeSitterTextDocument.create(uri, 'memexwiki', 0, text)
CreatedVersion == 0

\* The versions a didOpen notification carries.
OpenVersions == {0, 1}

\* The file of a document is written by another program.
WriteFile(uri, text) ==
  /\ disk[uri] # text
  /\ Install([Cur EXCEPT !.disk[uri] = text, !.ret = Void])
  /\ UNCHANGED <<open, timers>>

\* textDocument/didOpen of a file the editor has just loaded: the
\* notification carries the file's text and the editor's version, and
\* the handler reads neither.
NotifyOpen(uri, version) ==
  /\ uri \notin open
  /\ LET s == OnDidOpenTextDocument(Cur, uri)
     IN /\ LifecycleCaps(s)
        /\ Install(IF s.threw THEN Done(s)
                   ELSE [s EXCEPT !.ret = [op |-> "didOpen", uri |-> uri,
                                           text |-> disk[uri],
                                           version |-> version]])
  /\ open' = open \cup {uri}
  /\ UNCHANGED timers

\* No action of OpenNext updates a document, so every stored document
\* has the version it was created with.
OpenNext ==
  \/ \E u \in DocumentUris, t \in Names : WriteFile(u, t)
  \/ \E u \in DocumentUris, v \in OpenVersions : NotifyOpen(u, v)
  \/ \E u \in DocumentUris : DidClose(u)
  \/ \E w \in FolderUris : AddWorkspaceFolder(w)
  \/ \E j \in 1..MaxLifecycleJobs : Complete(j)

OpenSpec == Init /\ [][OpenNext]_vars

\* ------------------------------------------ rename of an indexing document

MaxRenameLen == 4
MaxRenames == 2

\* The texts of the renamed document: instances of the symbol "k", each a
\* node of one character, between spaces and line feeds.
SymbolText == <<"k">>
RenameChars == {"k", Space, LF}
RenameUri == "W/b.rst"

RECURSIVE RenameTextsOfLength(_)
RenameTextsOfLength(n) ==
  IF n = 0 THEN {<<>>}
  ELSE {<<c>> \o t : c \in RenameChars, t \in RenameTextsOfLength(n - 1)}
RenameTexts ==
  {t \in UNION {RenameTextsOfLength(n) : n \in 1..MaxRenameLen} :
     /\ \E i \in 1..Len(t) : t[i] = "k"
     /\ \A i \in 1..(Len(t) - 1) : ~(t[i] = "k" /\ t[i + 1] = "k")}

NewNames == {<<"n">>, <<"n", "n">>}

\* node.startPosition / node.endPosition: the row and column of an offset.
PointAt(content, offset) ==
  LET feeds == {j \in 1..offset : content[j] = LF}
      lineStart == IF feeds = {} THEN 0 ELSE CHOOSE j \in feeds : \A k \in feeds : k <= j
  IN [row |-> Cardinality(feeds), column |-> offset - lineStart]

\* tsNodeToLspRange / tsPointToLspPosition
tsPointToLspPosition(point) == [line |-> point.row, character |-> point.column]
tsNodeToLspRange(node) ==
  [start |-> tsPointToLspPosition(node.startPosition),
   end |-> tsPointToLspPosition(node.endPosition)]

\* The instances of the symbol in the document, as the queries over the tree
\* yield them: in the order of the text.
SymbolInstances(content) ==
  LET starts == SetToSortedSeq({i \in 1..Len(content) : content[i] = "k"})
  IN [n \in 1..Len(starts) |->
        [type |-> "reference-citekey",
         node |-> [text |-> SymbolText,
                   startPosition |-> PointAt(content, starts[n] - 1),
                   endPosition |-> PointAt(content, starts[n])]]]

\* adjustSymbolNewName
adjustSymbolNewName(target, newName) ==
  IF target.type = "media-file-path"
  THEN IF target.node.text[1] = Slash THEN ensureLeadingSlash(newName)
       ELSE removeLeadingSlash(newName)
  ELSE newName

\* targets.map(x => ({ range: tsNodeToLspRange(x.node),
\*                     text: adjustSymbolNewName(x, newName) })):
\* the ranges are those of the nodes before the update.
ContentChanges(targets, newName) ==
  [n \in 1..Len(targets) |->
     [hasText |-> TRUE, text |-> adjustSymbolNewName(targets[n], newName),
      hasRange |-> TRUE, range |-> tsNodeToLspRange(targets[n].node),
      rangeLength |-> "undefined"]]

\* onRename for a target document in state indexing:
\* idoc.update(idoc.version + 1, contentChanges); idoc.saveToDisk()
RenameIndexing(newName) ==
  /\ tsDoc.version < MaxRenames
  /\ LET targets == SymbolInstances(tsDoc.content)
         r == TextDocumentUpdate(tsDoc, ContentChanges(targets, newName),
                                 tsDoc.version + 1)
     IN /\ targets # <<>>
        /\ tsDoc' = r.doc
        /\ docCache' = DocumentClearCache(docCache)
        /\ disk' = [disk EXCEPT ![RenameUri] = r.doc.content]
        /\ out' = [op |-> "rename", before |-> tsDoc.content,
                   version |-> tsDoc.version, newName |-> newName]
  /\ UNCHANGED <<workspaces, documents, tasks, jobs, idCounter, priorityQueue,
                 cancelled, proc, promise, wsCache, open, timers, ret,
                 timeVars, facts>>

RenameInit ==
  /\ workspaces = {}
  /\ documents = {}
  /\ tasks = {}
  /\ jobs = {}
  /\ idCounter = [Workspace |-> 0, Document |-> 0, Task |-> 0, Job |-> 0]
  /\ priorityQueue = <<>>
  /\ cancelled = {}
  /\ proc = <<>>
  /\ promise = <<>>
  /\ wsCache = <<>>
  /\ open = {}
  /\ timers = {}
  /\ ret = Void
  /\ \E t \in RenameTexts :
       /\ tsDoc = [content |-> t, lineOffsets |-> <<>>, version |-> 0, tree |-> 1]
       /\ disk = [u \in {RenameUri} |-> t]
  /\ docCache = [n \in FactNames |-> NoFacts]
  /\ out = Void
  /\ now = 0
  /\ debouncers = <<>>
  /\ edits = <<>>
  /\ facts = <<>>

RenameNext == \E newName \in NewNames : RenameIndexing(newName)

RenameSpec == RenameInit /\ [][RenameNext]_vars

\* ------------------------------------------------------ the section outline

MaxChildren == 2

\* The syntax trees of the documents of the workspace W: a top section whose
\* named children are include directives and subsections, in the order of the
\* text.  The key "b" names the file W/b.rst, the key "z" a file that is not
\* stored.  The includes form no cycle (the builder's recursion has no guard
\* against one) and no key is a glob pattern.  Titles, citekeys and lines are
\* copied from the nodes and are left out.
RootUri == "W/index.rst"
IncludedUri == "W/b.rst"
IncludeKeysOf(uri) == IF uri = RootUri THEN {"b", "z"} ELSE {"z"}
SectionType(level) == <<"section_1", "section_2", "section_3", "section_4", "section_5">>[level]

SeqsUpTo(S, n) == UNION {[1..m -> S] : m \in 0..n}
IncludeNodes(uri) == {[type |-> "include", key |-> k, children |-> <<>>] : k \in IncludeKeysOf(uri)}
SubSectionNodes(uri) ==
  {[type |-> t, children |-> c] :
     t \in {SectionType(2), SectionType(3)}, c \in SeqsUpTo(IncludeNodes(uri), 1)}
TopSections(uri) ==
  {[type |-> SectionType(1), children |-> c] :
     c \in SeqsUpTo(IncludeNodes(uri) \cup SubSectionNodes(uri), MaxChildren)}

RECURSIVE NodeSize(_)
RECURSIVE NodeSizes(_)
\* The lines a node and the nodes under it take: one each.
NodeSize(node) == 1 + NodeSizes(node.children)
NodeSizes(nodes) ==
  IF nodes = <<>> THEN 0 ELSE NodeSize(Head(nodes)) + NodeSizes(Tail(nodes))

RECURSIVE Lined(_, _)
\* The tree with node.startPosition.row in every node, the rows running in
\* the order of the text from the given row.
Lined(node, row) ==
  [type |-> node.type, line |-> row,
   children |-> [i \in 1..Len(node.children) |->
                   Lined(node.children[i],
                         row + 1 + NodeSizes(SubSeq(node.children, 1, i - 1)))]]
     @@ (IF node.type = "include" THEN [key |-> node.key] ELSE <<>>)

\* parseInt(node.type.substr(-1), 10)
SectionLevel(node) == CHOOSE level \in 1..5 : node.type = SectionType(level)

\* childrenByType
childrenByType(node, targetType) ==
  SelectSeq(node.children, LAMBDA c : c.type = targetType)

RECURSIVE IncludeMatches(_)
RECURSIVE IncludeMatchesIn(_)
\* query.matches(node) of processIncludes: the keys of the include directives
\* under the node, at any depth, in the order of the text.
IncludeMatches(node) ==
  IF node.type = "include" THEN <<node.key>> ELSE IncludeMatchesIn(node.children)
IncludeMatchesIn(nodes) ==
  IF nodes = <<>> THEN <<>> ELSE IncludeMatches(Head(nodes)) \o IncludeMatchesIn(Tail(nodes))

\* workspace.getDocument(`${p}.rst`), of a document in the root directory
IncludedDocuments(f, key) ==
  LET uri == IF key = "b" THEN IncludedUri ELSE "W/z.rst"
  IN IF uri \in DOMAIN f THEN <<uri>> ELSE <<>>

RECURSIVE Join(_, _)
\* Array.prototype.join: the elements with the separator between them.
Join(arr, sep) ==
  IF Len(arr) <= 1 THEN arr ELSE <<Head(arr), sep>> \o Join(Tail(arr), sep)

\* A children.length that would be used as the index as it is.
ChildIndex_ZeroBased(children) == Len(children)

\* const index = children.length + 1
ChildIndex(children) == Len(children) + 1

RECURSIVE SubSectionsOfTypes(_, _)
\* subSectionTypes.forEach(t => childrenByType(node, t).forEach(...)): the
\* subsections visited, type by type.
SubSectionsOfTypes(node, level) ==
  IF level > 5 THEN <<>>
  ELSE childrenByType(node, SectionType(level)) \o SubSectionsOfTypes(node, level + 1)

RECURSIVE processDocument(_, _, _, _)
RECURSIVE processSection(_, _, _, _, _)
RECURSIVE processIncludes(_, _, _, _)
RECURSIVE PushSubSections(_, _, _, _, _, _)

\* processDocument: the document's top section
processDocument(f, uri, numPath, includeChildDocuments) ==
  processSection(f, f[uri], uri, numPath, includeChildDocuments)

\* relPaths.forEach of processIncludes, from the keys left to visit and the
\* result so far
processIncludes(f, keys, numPath, result) ==
  IF keys = <<>> THEN result
  ELSE LET ds == IncludedDocuments(f, Head(keys))
           r == IF ds = <<>> THEN result
                ELSE result \o <<processDocument(f, ds[1],
                                                 numPath \o <<Len(result) + 1>>, TRUE)>>
       IN processIncludes(f, Tail(keys), numPath, r)

\* The forEach over the subsections: each is pushed with the index
\* children.length + 1.
PushSubSections(f, nodes, uri, numPath, includeChildDocuments, children) ==
  IF nodes = <<>> THEN children
  ELSE LET index == ChildIndex(children)
           child == processSection(f, Head(nodes), uri, numPath \o <<index>>,
                                   includeChildDocuments)
       IN PushSubSections(f, Tail(nodes), uri, numPath, includeChildDocuments,
                          children \o <<child>>)

\* processSection
processSection(f, node, uri, numPath, includeChildDocuments) ==
  LET level == SectionLevel(node)
      included == IF includeChildDocuments
                  THEN processIncludes(f, IncludeMatches(node), numPath, <<>>)
                  ELSE <<>>
      children == PushSubSections(f, SubSectionsOfTypes(node, level + 1), uri, numPath,
                                  includeChildDocuments, included)
  IN [number |-> Join(numPath, "."), uri |-> uri, line |-> node.line,
      children |-> children]

\* Workspace.sectionTree: new SectionTreeBuilder(this.index, true).run()
WorkspaceOutline ==
  /\ out' = [op |-> "outline", scope |-> "workspace",
             tree |-> processDocument(facts, RootUri, <<1>>, TRUE)]
  /\ UNCHANGED <<tsDoc, docCache, serverVars, timeVars, facts>>

\* Document.sectionTree: new SectionTreeBuilder(this, false).run()
DocumentOutline(uri) ==
  /\ out' = [op |-> "outline", scope |-> uri,
             tree |-> processDocument(facts, uri, <<1>>, FALSE)]
  /\ UNCHANGED <<tsDoc, docCache, serverVars, timeVars, facts>>

\* A workspace whose documents have been parsed.
OutlineInit ==
  /\ IdleInit
  /\ tsDoc = [content |-> <<>>, lineOffsets |-> <<>>, version |-> 0, tree |-> 0]
  /\ docCache = <<>>
  /\ out = Void
  /\ now = 0
  /\ debouncers = <<>>
  /\ edits = <<>>
  /\ \E root \in TopSections(RootUri), inc \in TopSections(IncludedUri) :
       facts = [u \in {RootUri, IncludedUri} |->
                  IF u = RootUri THEN Lined(root, 0) ELSE Lined(inc, 0)]

OutlineNext ==
  \/ WorkspaceOutline
  \/ \E u \in {RootUri, IncludedUri} : DocumentOutline(u)

OutlineSpec == OutlineInit /\ [][OutlineNext]_vars

\* ------------------------------------------------ the priority comparator

MaxCompared == 3

\* The jobs and tasks the comparator is tried on: one Job per Task, the Job
\* ids in the reverse order of the Task ids, any set of cancelled ids, and
\* every task listing none or one of the tasks (itself included) as its
\* dependency.
ComparedIds == 1..MaxCompared
ComparedTask(jobId) == MaxCompared + 1 - jobId
DependencyLists == {S \in SUBSET ComparedIds : Cardinality(S) <= 1}

\* A comparator that would rank two tasks joined by a chain of dependencies
\* like a task and its direct dependency.
jobCompare_Transitive(s, jobId1, jobId2) ==
  IF jobId1 \in s.cancelled THEN 1
  ELSE IF jobId2 \in s.cancelled THEN -1
  ELSE LET task1 == TaskById(s.tasks, (CHOOSE j \in s.jobs : j.id = jobId1).taskId)
           task2 == TaskById(s.tasks, (CHOOSE j \in s.jobs : j.id = jobId2).taskId)
           via(t, u) == \E d \in t.dependencyIds :
                          d = u.id \/ (HasTask(s.tasks, d) /\
                                       u.id \in TaskById(s.tasks, d).dependencyIds)
       IN IF via(task1, task2) THEN -1
          ELSE IF via(task2, task1) THEN 1
          ELSE 0

\* jobCompare
jobCompare(s, jobId1, jobId2) ==
  IF jobId1 \in s.cancelled THEN 1
  ELSE IF jobId2 \in s.cancelled THEN -1
  ELSE LET job1 == CHOOSE j \in s.jobs : j.id = jobId1
           job2 == CHOOSE j \in s.jobs : j.id = jobId2
           task1 == TaskById(s.tasks, job1.taskId)
           task2 == TaskById(s.tasks, job2.taskId)
       IN IF task2.id \in task1.dependencyIds THEN -1
          ELSE IF task1.id \in task2.dependencyIds THEN 1
          ELSE 0

\* One call of the comparator, and the call with the arguments swapped.
Compare(jobId1, jobId2) ==
  /\ Install([Cur EXCEPT !.ret = [op |-> "jobCompare", jobId1 |-> jobId1,
                                  jobId2 |-> jobId2,
                                  value |-> jobCompare(Cur, jobId1, jobId2),
                                  swapped |-> jobCompare(Cur, jobId2, jobId1)]])
  /\ UNCHANGED <<open, timers>>

CompareInit ==
  /\ workspaces = {}
  /\ documents = {}
  /\ \E g \in [ComparedIds -> DependencyLists] :
       tasks = {[id |-> t, operation |-> "audit", documentId |-> t,
                 dependencyIds |-> g[t], lastCompleted |-> Undefined] : t \in ComparedIds}
  /\ jobs = {[id |-> j, taskId |-> ComparedTask(j)] : j \in ComparedIds}
  /\ idCounter = [Workspace |-> 0, Document |-> 0, Task |-> MaxCompared, Job |-> MaxCompared]
  /\ priorityQueue = <<>>
  /\ cancelled \in SUBSET ComparedIds
  /\ proc = <<>>
  /\ promise = <<>>
  /\ wsCache = <<>>
  /\ disk = [u \in DocumentUris |-> "x"]
  /\ open = {}
  /\ timers = {}
  /\ ret = Void
  /\ NoBuffer

CompareNext == \E a, b \in ComparedIds : Compare(a, b)

CompareSpec == CompareInit /\ [][CompareNext]_vars

\* --------------------------------- submitTask on any graph of dependencies

MaxStackDepth == 4

\* Every assignment of dependencyIds to the three stored tasks: a task may
\* list itself, and two tasks each other.
AnyGraphs == [TaskIds -> SUBSET TaskIds]

RECURSIVE SubmitTaskAt(_, _, _)
RECURSIVE SubmitDependenciesAt(_, _, _)

\* The forEach over task.dependencies, in a call at the given depth of the
\* call stack; an exception in a nested call ends it.
SubmitDependenciesAt(s, deps, depth) ==
  IF deps = <<>> \/ s.threw THEN s
  ELSE LET dep == TaskById(s.tasks, Head(deps))
           s1 == IF dep.lastCompleted = Undefined /\ TaskJob(s, dep.id) = NoJob
                 THEN SubmitTaskAt(s, dep.id, depth + 1)
                 ELSE s
       IN SubmitDependenciesAt(s1, Tail(deps), depth)

\* submitTask as a call at the given depth of the call stack: the engine
\* throws a RangeError in the call that exceeds the stack (MaxStackDepth
\* frames, more than there are tasks), and no frame catches it.
SubmitTaskAt(s, tid, depth) ==
  IF depth > MaxStackDepth THEN [s EXCEPT !.threw = TRUE]
  ELSE IF TaskJob(s, tid) # NoJob THEN s
  ELSE LET s1 == SubmitDependenciesAt(s, TaskDependencies(s, tid), depth)
           id == s1.idCounter.Job + 1
           newJob == [id |-> id, taskId |-> tid]
           s2 == [s1 EXCEPT !.idCounter.Job = id,
                            !.promise = @ @@ (id :> "pending"),
                            !.proc = @ @@ (id :> NewProc)]
       IN IF s1.threw THEN s1
          ELSE IF JobsInsertFails(s2.jobs, newJob) THEN [s2 EXCEPT !.threw = TRUE]
          ELSE JobQueueNext([s2 EXCEPT !.jobs = @ \cup {newJob},
                                       !.priorityQueue = Append(@, id)])

\* One call submitTask(tid) from outside the scheduler.
SubmitAnyGraph(tid) ==
  /\ HasTask(tasks, tid)
  /\ LET s == SubmitTaskAt(Cur, tid, 1)
     IN /\ s.idCounter.Job <= MaxJobs
        /\ Install([s EXCEPT !.ret = [op |-> "submitted", task |-> tid,
                                      overflow |-> s.threw,
                                      created |-> {j \in s.jobs : j.id > idCounter.Job}]])
  /\ UNCHANGED <<open, timers>>

AnyGraphInit ==
  /\ workspaces = {[id |-> 1, uri |-> "W"], [id |-> 2, uri |-> "S.rst"]}
  /\ documents =
       {[id |-> 1, uri |-> "W/b.rst", workspaceId |-> 1, state |-> "indexing", text |-> "x"],
        [id |-> 2, uri |-> "W/index.rst", workspaceId |-> 1, state |-> "indexing", text |-> "x"],
        [id |-> 3, uri |-> "S.rst", workspaceId |-> 2, state |-> "editing", text |-> "x"]}
  /\ \E g \in AnyGraphs :
       tasks = {[id |-> t, operation |-> "audit", documentId |-> t,
                 dependencyIds |-> g[t], lastCompleted |-> Undefined] : t \in TaskIds}
  /\ jobs = {}
  /\ idCounter = [Workspace |-> 2, Document |-> 3, Task |-> 3, Job |-> 0]
  /\ priorityQueue = <<>>
  /\ cancelled = {}
  /\ proc = <<>>
  /\ promise = <<>>
  /\ wsCache = [w \in {1, 2} |-> EmptyCache]
  /\ disk = [u \in DocumentUris |-> "x"]
  /\ open = {}
  /\ timers = {}
  /\ ret = Void
  /\ NoBuffer

AnyGraphNext ==
  \/ \E t \in TaskIds : SubmitAnyGraph(t)
  \/ \E j \in 1..MaxJobs : Complete(j)

AnyGraphSpec == AnyGraphInit /\ [][AnyGraphNext]_vars

\* ------------------------------------ the builders on any graph of includes

MaxBuilderDepth == 3

\* The documents of W with includes that name any file: the key "index"
\* names W/index.rst, so a document may include itself and two documents each
\* other.
AnyIncludeKeys == {"index", "b", "z"}
AnyIncludeNodes == {[type |-> "include", key |-> k, children |-> <<>>] : k \in AnyIncludeKeys}
AnySubSectionNodes ==
  {[type |-> t, children |-> c] :
     t \in {SectionType(2), SectionType(3)}, c \in SeqsUpTo(AnyIncludeNodes, 1)}
AnyTopSections ==
  {[type |-> SectionType(1), children |-> c] :
     c \in SeqsUpTo(AnyIncludeNodes \cup AnySubSectionNodes, MaxChildren)}

\* workspace.getDocument(`${p}.rst`), of a document in the root directory
GetIncludedDocument(f, key) ==
  LET uri == IF key = "index" THEN RootUri
             ELSE IF key = "b" THEN IncludedUri ELSE "W/z.rst"
  IN IF uri \in DOMAIN f THEN <<uri>> ELSE <<>>

\* What a builder's call yields: the nodes built, or the RangeError of the
\* engine when the calls exceed the stack (MaxBuilderDepth nested documents,
\* more than there are documents), which no frame catches; threw is an
\* Error of the builder's own.
Overflowed == [overflow |-> TRUE, threw |-> FALSE, nodes |-> <<>>]
Built(nodes) == [overflow |-> FALSE, threw |-> FALSE, nodes |-> nodes]

RECURSIVE processDocumentAt(_, _, _, _)
RECURSIVE processSectionAt(_, _, _, _, _)
RECURSIVE processIncludesAt(_, _, _, _, _)
RECURSIVE PushSubSectionsAt(_, _, _, _, _, _)

\* processDocument, entered with depth documents on the call stack
processDocumentAt(f, uri, numPath, depth) ==
  IF depth > MaxBuilderDepth THEN Overflowed
  ELSE processSectionAt(f, f[uri], uri, numPath, depth)

\* relPaths.forEach of processIncludes
processIncludesAt(f, keys, numPath, result, depth) ==
  IF result.overflow \/ keys = <<>> THEN result
  ELSE LET ds == GetIncludedDocument(f, Head(keys))
           c == processDocumentAt(f, ds[1], numPath \o <<Len(result.nodes) + 1>>, depth + 1)
           r == IF ds = <<>> THEN result
                ELSE IF c.overflow THEN Overflowed
                ELSE Built(result.nodes \o c.nodes)
       IN processIncludesAt(f, Tail(keys), numPath, r, depth)

\* The forEach over the subsections
PushSubSectionsAt(f, nodes, uri, numPath, children, depth) ==
  IF children.overflow \/ nodes = <<>> THEN children
  ELSE LET index == ChildIndex(children.nodes)
           c == processSectionAt(f, Head(nodes), uri, numPath \o <<index>>, depth)
       IN PushSubSectionsAt(f, Tail(nodes), uri, numPath,
                            IF c.overflow THEN Overflowed
                            ELSE Built(children.nodes \o c.nodes), depth)

\* processSection with includeChildDocuments
processSectionAt(f, node, uri, numPath, depth) ==
  LET included == processIncludesAt(f, IncludeMatches(node), numPath, Built(<<>>), depth)
      children == PushSubSectionsAt(f, SubSectionsOfTypes(node, SectionLevel(node) + 1),
                                    uri, numPath, included, depth)
  IN IF children.overflow THEN Overflowed
     ELSE Built(<<[number |-> Join(numPath, "."), uri |-> uri,
                   children |-> children.nodes]>>)

\* `${x}` of an Include, an object without a toString of its own
IncludeToString == "[object Object]"

\* FileTreeBuilder.processChild: the uri of path.join(root, `${x}.rst`)
ChildUri(uri) ==
  IF uri = RootUri THEN "W/" \o IncludeToString \o ".rst"
  ELSE "W/b/" \o IncludeToString \o ".rst"

RECURSIVE fileTreeAt(_, _, _)
RECURSIVE fileTreeChildren(_, _, _, _)

\* doc.includes.flatMap(x => this.processChild(childRoot, `${x}.rst`)):
\* safeCollectionGet throws for a uri that is not stored.
fileTreeChildren(f, uri, includes, depth) ==
  IF includes = <<>> THEN Built(<<>>)
  ELSE IF ChildUri(uri) \notin DOMAIN f
  THEN [overflow |-> FALSE, threw |-> TRUE, nodes |-> <<>>]
  ELSE LET c == fileTreeAt(f, ChildUri(uri), depth + 1)
           rest == fileTreeChildren(f, uri, Tail(includes), depth)
       IN IF c.overflow \/ c.threw THEN c
          ELSE IF rest.overflow \/ rest.threw THEN rest
          ELSE Built(c.nodes \o rest.nodes)

\* FileTreeBuilder.processDocument
fileTreeAt(f, uri, depth) ==
  IF depth > MaxBuilderDepth THEN Overflowed
  ELSE LET children == fileTreeChildren(f, uri, IncludeMatches(f[uri]), depth)
       IN IF children.overflow \/ children.threw THEN children
          ELSE Built(<<[filename |-> uri, children |-> children.nodes]>>)

\* Workspace.sectionTree on the documents as they are
BuildOutline ==
  /\ LET r == processDocumentAt(facts, RootUri, <<1>>, 1)
     IN out' = [op |-> "outline", builder |-> "sectionTree", overflow |-> r.overflow,
                threw |-> r.threw, nodes |-> r.nodes]
  /\ UNCHANGED <<tsDoc, docCache, serverVars, timeVars, facts>>

\* Document.fileTree
BuildFileTree(uri) ==
  /\ LET r == fileTreeAt(facts, uri, 1)
     IN out' = [op |-> "fileTree", builder |-> uri, overflow |-> r.overflow,
                threw |-> r.threw, nodes |-> r.nodes]
  /\ UNCHANGED <<tsDoc, docCache, serverVars, timeVars, facts>>

BuilderInit ==
  /\ IdleInit
  /\ tsDoc = [content |-> <<>>, lineOffsets |-> <<>>, version |-> 0, tree |-> 0]
  /\ docCache = <<>>
  /\ out = Void
  /\ now = 0
  /\ debouncers = <<>>
  /\ edits = <<>>
  /\ \E root \in AnyTopSections, inc \in AnyTopSections :
       facts = [u \in {RootUri, IncludedUri} |-> IF u = RootUri THEN root ELSE inc]

BuilderNext ==
  \/ BuildOutline
  \/ \E u \in {RootUri, IncludedUri} : BuildFileTree(u)

BuilderSpec == BuilderInit /\ [][BuilderNext]_vars

\* ------------------------------------------------- ranges given end first

\* The argument of this._tree.edit for one incremental change.
TreeEdit(d, change) ==
  LET range == getWellformedRange(change.range)
      d0 == WithLineOffsets(d)
      startOffset == offsetAt(d0, range.start)
      endOffset == offsetAt(d0, range.end)
      newEndOffset == startOffset + Len(change.text)
      newEndPosition == positionAt(ApplyIncremental(d, change), newEndOffset)
  IN [startIndex |-> startOffset, oldEndIndex |-> endOffset, newEndIndex |-> newEndOffset,
      startPosition |-> [row |-> range.start.line, column |-> range.start.character],
      oldEndPosition |-> [row |-> range.end.line, column |-> range.end.character],
      newEndPosition |-> [row |-> newEndPosition.line, column |-> newEndPosition.character]]

\* Whether the range's start lies after its end.
StartAfterEnd(range) ==
  \/ range.start.line > range.end.line
  \/ (range.start.line = range.end.line /\ range.start.character > range.end.character)

\* The change with the ends of its range exchanged.
Exchanged(change) ==
  [change EXCEPT !.range = [start |-> change.range.end, end |-> change.range.start]]

\* update() with one incremental change whose range starts after its end;
\* out holds what the same buffer would make of the exchanged change.
UpdateEndFirst(change) ==
  /\ tsDoc.tree < MaxParses
  /\ StartAfterEnd(change.range)
  /\ LET r == TextDocumentUpdate(tsDoc, <<change>>, tsDoc.version + 1)
         x == TextDocumentUpdate(tsDoc, <<Exchanged(change)>>, tsDoc.version + 1)
     IN /\ Len(r.doc.content) <= MaxLen
        /\ tsDoc' = r.doc
        /\ docCache' = DocumentClearCache(docCache)
        /\ out' = [op |-> "endFirst", before |-> tsDoc.content, change |-> change,
                   edit |-> TreeEdit(tsDoc, change),
                   exchanged |-> [content |-> x.doc.content,
                                  lineOffsets |-> x.doc.lineOffsets,
                                  edit |-> TreeEdit(tsDoc, Exchanged(change))]]
  /\ UNCHANGED <<serverVars, timeVars, facts>>

RangeNext == \E change \in IncrementalChanges(tsDoc) : UpdateEndFirst(change)

RangeSpec == BufferInit /\ [][RangeNext]_vars

\* ------------------------------------------------------------- properties

StoredJobIds == {j.id : j \in jobs}

\* C1: a submitTask made while the task has a live Job returns that Job's
\* handle; no second execution of the task is started beside the live one,
\* and a fulfilled handle stands for exactly one execution.
C1_SharedHandle ==
  /\ (ret.op = "submitTask" /\ ret.live # {}) => ret.handle \in ret.live
  /\ \A t \in TaskIds :
       Cardinality({j \in DOMAIN proc : proc[j].task = t /\ proc[j].pc = "running"}) <= 1
  /\ \A j \in DOMAIN proc :
       /\ proc[j].runs <= 1
       /\ promise[j] = "fulfilled" => proc[j].runs = 1

C1_Witness ==
  /\ ret.op = "submitTask"
  /\ ret.live # {}
  /\ ret.handle \in DOMAIN proc
  /\ proc[ret.handle].pc = "running"

\* C2: when a job's unit of work starts, every dependency that was
\* unscheduled and never completed when submitTask was called has finished
\* and carries its lastCompleted stamp.
C2_DependencyCompletesFirst ==
  \A j \in DOMAIN proc : proc[j].runs > 0 => proc[j].undone = {}

\* C4: the jobs collection holds at most one Job per task id.
C4_OneJobPerTask ==
  \A j1, j2 \in jobs : j1.taskId = j2.taskId => j1 = j2

C4_Witness ==
  /\ Cardinality(jobs) >= 2
  /\ ret.op = "submitTask"
  /\ ret.live # {}

C6_LateCancelNoEffect ==
  \A j \in DOMAIN proc :
    (j \in cancelled /\ proc[j].pc \in {"done", "threw"}) =>
      /\ proc[j].pc = "done"
      /\ promise[j] = "fulfilled"
      /\ j \notin StoredJobIds

\* C7: a handle is fulfilled only once its unit of work has finished, and
\* the handle of every created job is eventually fulfilled unless the job
\* was dropped as cancelled or its document left the store.
C7_HandleEventuallyFulfilled ==
  /\ [](\A j \in DOMAIN promise :
          promise[j] = "fulfilled" => proc[j].pc = "done" /\ proc[j].runs = 1)
  /\ \A j \in 1..MaxJobs :
       (j \in DOMAIN proc) ~>
         /\ j \in DOMAIN proc
         /\ \/ promise[j] = "fulfilled"
            \/ proc[j].pc = "dropped"
            \/ ~HasDocument(documents, proc[j].document)

C7_Witness ==
  \E j \in DOMAIN promise :
    /\ promise[j] = "fulfilled"
    /\ j \notin cancelled
    /\ HasDocument(documents, proc[j].document)

\* C8: no job waits in the queue for another execution to finish: every
\* submission pops its job at once, so a job that is not dropped as
\* cancelled is executing or has ended, whatever else is suspended.
C8_NoWaitingBehindSuspended ==
  /\ priorityQueue = <<>>
  /\ \A j \in DOMAIN proc : proc[j].pc # "queued"

\* A later job of another document finished while an earlier one is still
\* suspended.
C8_Witness ==
  \E j1, j2 \in DOMAIN proc :
    /\ j1 < j2
    /\ proc[j1].pc = "running"
    /\ proc[j2].pc = "done"
    /\ promise[j2] = "fulfilled"
    /\ proc[j1].document # proc[j2].document

\* C3: after a handler that has updated a document's text (a change
\* notification, or a rename reaching an indexing document), no memoized table
\* of the document's workspace differs from the table computed from the
\* workspace's documents as they now are: the next read is a recomputed one.
C3_UpdateClearsWorkspaceCache ==
  (ret.op \in {"didChange", "rename"} /\ ret.ws \in DOMAIN wsCache) =>
    \A key \in WorkspaceCacheKeys :
      \/ wsCache[ret.ws][key] = NoValue
      \/ wsCache[ret.ws][key] = ComputeTable(Cur, ret.ws)

\* C9: a rename never rewrites, in the server's buffer and on disk, a document
\* that is open in the editor.
C9_RenameSparesOpenDocuments ==
  ret.op = "rename" => ret.written \cap open = {}

\* C10: once the last open document of a workspace has been closed, the
\* workspace, its documents, their tasks and their jobs are gone from the store.
C10_LastCloseDropsWorkspace ==
  (/\ ret.op = "didClose"
   /\ \A u \in open : resolveDocumentWorkspace(u) # resolveDocumentWorkspace(ret.uri)) =>
    /\ ~HasWorkspaceUri(workspaces, resolveDocumentWorkspace(ret.uri))
    /\ \A d \in documents :
         resolveDocumentWorkspace(d.uri) # resolveDocumentWorkspace(ret.uri)
    /\ \A t \in tasks : HasDocument(documents, t.documentId)
    /\ \A j \in jobs : HasTask(tasks, j.taskId)

\* C11: after a close-document notification no Job of the closed document
\* is left in the store: its live Job, if any, was cancelled and removed.
C11_CloseRemovesJob ==
  ret.op = "didClose" =>
    \A j \in jobs :
      ~(/\ HasTask(tasks, j.taskId)
        /\ HasDocument(documents, TaskById(tasks, j.taskId).documentId)
        /\ DocumentById(documents, TaskById(tasks, j.taskId).documentId).uri = ret.uri)

\* C12: after an update() or a reparse() of a document, no memoized fact
\* list of the document comes from a tree that preceded the current one.
C12_FactsFromCurrentTree ==
  (out.op \in {"update", "reparse"} /\ (out.op = "update" => ~out.threw)) =>
    \A n \in FactNames : docCache[n] = NoFacts \/ docCache[n].tree = tsDoc.tree

\* C17: offsetAt(positionAt(offsetAt(p))) = offsetAt(p), for every text the
\* buffer can hold and every position.
C17_OffsetRoundTrip ==
  out.op = "roundTrip" => out.second = out.first

\* A round trip in a text with a CRLF line end, from an offset inside the text.
C17_Witness ==
  /\ out.op = "roundTrip"
  /\ out.first > 0
  /\ out.first < Len(tsDoc.content)
  /\ \E i \in 1..(Len(tsDoc.content) - 1) :
       tsDoc.content[i] = CR /\ tsDoc.content[i + 1] = LF

\* C18: an update with a change that is neither incremental nor full raises
\* an error and leaves the buffer's version as it was.
C18_UnknownChangeIsFatal ==
  (out.op = "update" /\ out.unknown) => (out.threw /\ tsDoc.version = out.before)

C18_Witness ==
  /\ out.op = "update"
  /\ out.unknown
  /\ out.before > 0

\* C13: the changes of one document that follow each other within the quiet
\* period cause one analysis, one quiet period after the last of them; a
\* change of another document neither delays nor triggers it.
C13_EditsCoalesce ==
  /\ [](ret.op = "analyze" =>
          /\ ret.coalesced >= 1
          /\ ret.at = ret.last + QuietPeriod)
  /\ [](\A u \in DOMAIN edits :
          edits[u].pending > 0 =>
            /\ DebouncerOf(u) \in DOMAIN debouncers
            /\ debouncers[DebouncerOf(u)] = edits[u].last + QuietPeriod
            /\ now <= edits[u].last + QuietPeriod)
  /\ [][\A u \in EditedUris :
          (ret'.op = "edit" /\ ret'.uri # u) => EditsOf(u)' = EditsOf(u)]_vars

\* Three changes of one document, one tick apart, and a change of the other
\* document in between, answered by one analysis.
C13_Witness ==
  /\ ret.op = "analyze"
  /\ ret.coalesced = 3
  /\ \E u \in DOMAIN edits : u # ret.uri /\ edits[u].pending > 0 /\ edits[u].last > ret.last - QuietPeriod

\* C14: an audit whose key lookup failed returns the diagnostics of every
\* pass but the reference-key pass, those of the passes ordered after it
\* included, and its handle is fulfilled.
C14_OnlyKeyPassSkipped ==
  (ret.op = "audit" /\ ret.keyCall = "error") =>
    /\ LET Kept(p) == p \in ret.found /\ p # KeyPass
       IN ret.diagnostics = SelectSeq(AuditPasses, Kept)
    /\ promise[ret.job] = "fulfilled"

\* C15: no Job's handle is ever rejected: cancelled, closed or completed, a
\* handle is fulfilled or unsettled.
C15_HandleNeverRejected ==
  \A j \in DOMAIN promise : promise[j] \in {"pending", "fulfilled"}

\* A job cancelled in flight whose document was dropped and whose run then
\* threw, beside a job that was dropped as cancelled.
C15_Witness ==
  /\ \E j \in DOMAIN proc : proc[j].pc = "threw" /\ j \in cancelled /\ promise[j] = "pending"
  /\ \E j \in DOMAIN proc : proc[j].pc = "dropped" /\ promise[j] = "pending"

\* C16: when addWorkspace has returned, every document of the new workspace has
\* exactly one Task, that Task's operation is audit and its dependency list is
\* empty, and no Job is stored for it.
C16_OneAuditTaskPerDocument ==
  (ret # Void /\ ret.op = "addWorkspace") =>
    /\ HasWorkspaceUri(workspaces, ret.uri)
    /\ LET wid == WorkspaceByUri(workspaces, ret.uri).id
       IN /\ {d.uri : d \in WorkspaceDocuments(Cur, wid)} =
               (IF WorkspaceType(ret.uri) = "single-file" THEN {ret.uri}
                ELSE {resolveWorkspaceDocuments(ret.uri)[i] :
                        i \in DOMAIN resolveWorkspaceDocuments(ret.uri)})
          /\ \A d \in WorkspaceDocuments(Cur, wid) :
               LET ts == {t \in tasks : t.documentId = d.id}
               IN /\ Cardinality(ts) = 1
                  /\ \A t \in ts : /\ t.operation = "audit"
                                   /\ t.dependencyIds = {}
                                   /\ t.lastCompleted = Undefined
                                   /\ ~\E j \in jobs : j.taskId = t.id

\* A folder workspace with two documents has been added while another
\* workspace's job is stored.
C16_Witness ==
  /\ ret # Void /\ ret.op = "addWorkspace"
  /\ jobs # {}
  /\ HasWorkspaceUri(workspaces, ret.uri)
  /\ Cardinality(WorkspaceDocuments(Cur, WorkspaceByUri(workspaces, ret.uri).id)) = 2

\* C19: Reference.type is the first rule that matches the key, in this order:
\* whitespace present -> unknown; prefix "mail:" -> mail; prefix "/" -> media;
\* scheme http:// or https:// -> web; third dot-separated segment is an
\* 8-character token -> record; otherwise unknown.
C19_TypeByOrderedRules ==
  out.op = "type" =>
    LET key == out.key
        Whitespace == {Space, Tab}
        NextDot(from) ==
          LET dots == {i \in from..Len(key) : key[i] = Dot} \cup {Len(key) + 1}
          IN CHOOSE i \in dots : \A j \in dots : i <= j
        d1 == NextDot(1)
        d2 == NextDot(d1 + 1)
        d3 == NextDot(d2 + 1)
        ThirdIsToken == d2 <= Len(key) /\ d3 - d2 - 1 = TokenLength
        expected ==
          IF \E i \in 1..Len(key) : key[i] \in Whitespace THEN "unknown"
          ELSE IF SliceTo(key, 5) = <<"m", "a", "i", "l", ":">> THEN "mail"
          ELSE IF SliceTo(key, 1) = <<Slash>> THEN "media"
          ELSE IF MatchesWeb(key) THEN "web"
          ELSE IF ThirdIsToken THEN "record"
          ELSE "unknown"
    IN out.type = expected

\* C20: for a media file path, getAllSymbolInstances returns the same
\* instances for the symbol text with and without the leading slash: every
\* reference listing whose key is the slash-prefixed path, then every image
\* reference whose root is the non-prefixed path.
C20_SlashInsensitive ==
  out.op = "instances" =>
    LET path == IF Len(out.text) > 0 /\ out.text[1] = Slash THEN Tail(out.text)
                ELSE out.text
        other == IF out.text = path THEN <<Slash>> \o path ELSE path
        WithKey(x) == x.node.fact = "referenceListings" /\ x.node.text = <<Slash>> \o path
        WithRoot(x) == x.node.fact = "imageReferences" /\ x.node.text = path
        Instance(x) == [documentUri |-> x.uri, node |-> x.node, type |-> "media-file-path"]
        found == SelectSeq(FlatMapFacts(facts, "referenceListings", WorkspaceDocumentUris),
                           WithKey)
                 \o SelectSeq(FlatMapFacts(facts, "imageReferences", WorkspaceDocumentUris),
                              WithRoot)
    IN ~(Len(path) > 0 /\ path[1] = Slash) =>
         /\ out.instances = getAllSymbolInstances(facts, other)
         /\ out.instances = [i \in DOMAIN found |-> Instance(found[i])]

\* The symbol is written with the slash; both documents list the prefixed key
\* and one has an image reference to the non-prefixed path, beside an image
\* reference written with the slash, which is not an instance.
C20_Witness ==
  /\ out.op = "instances"
  /\ out.text = <<Slash, "a">>
  /\ Len(out.instances) = 3
  /\ \E u \in DOMAIN facts : facts[u].imageReferences = <<<<Slash, "a">>>>

\* C23: a submitTask on a task without a stored Job creates a Job for the
\* task and, before it, one for exactly those dependencies that had neither a
\* Job nor a lastCompleted stamp (and, through their own submitTask, for
\* theirs); a dependency that was completed before or has a Job gets no new
\* Job, and no other step creates a Job.
C23_OnlyUnscheduledDependencies ==
  [][ IF idCounter'.Job = idCounter.Job
      THEN jobs' \subseteq jobs
      ELSE LET tid == ret'.task
               created == jobs' \ jobs
               Unscheduled(d) == /\ HasTask(tasks, d)
                                 /\ TaskById(tasks, d).lastCompleted = Undefined
                                 /\ ~\E j \in jobs : j.taskId = d
               Step(S) == S \cup {d \in TaskIds :
                                    \E u \in S : /\ d \in TaskById(tasks, u).dependencyIds
                                                 /\ Unscheduled(d)}
               submitted == Step(Step(Step({tid})))
           IN /\ ret'.op = "submitTask"
              /\ ~\E j \in jobs : j.taskId = tid
              /\ {j.taskId : j \in created} = submitted
              /\ Cardinality(created) = Cardinality(submitted)
              /\ \A j \in created : IF j.taskId = tid THEN j.id = ret'.handle
                                    ELSE j.id < ret'.handle
              /\ \A d \in TaskById(tasks, tid).dependencyIds :
                   (d \in submitted) = Unscheduled(d) ]_vars

\* A submitTask has created a Job for one dependency and none for another,
\* which was completed before and has no Job.
C23_Witness ==
  /\ ret.op = "submitTask"
  /\ ret.handle \in DOMAIN proc
  /\ HasTask(tasks, ret.task)
  /\ \E d1, d2 \in TaskById(tasks, ret.task).dependencyIds :
       /\ HasTask(tasks, d1) /\ HasTask(tasks, d2)
       /\ TaskById(tasks, d1).lastCompleted = Stamped
       /\ ~\E j \in jobs : j.taskId = d1
       /\ \E j \in jobs : j.taskId = d2 /\ j.id = ret.handle - 1

\* C24: a handle is fulfilled by the step in which its job's unit of work
\* finishes, and what a continuation on the handle sees, the state that step
\* leaves, has the task stamped and no Job stored for it; a submitTask on a
\* completed task without a Job creates a new Job, whose unit of work is
\* started unless its id carries a cancellation mark.
C24_CompletionOrder ==
  [][ /\ \A j \in DOMAIN promise :
           (promise[j] # "fulfilled" /\ promise'[j] = "fulfilled") =>
             /\ proc[j].pc = "running" /\ proc'[j].pc = "done"
             /\ HasTask(tasks', proc[j].task)
             /\ TaskById(tasks', proc[j].task).lastCompleted = Stamped
             /\ ~\E k \in jobs' : k.taskId = proc[j].task
             /\ \E k \in jobs : k.id = j /\ k.taskId = proc[j].task
      /\ (/\ idCounter'.Job # idCounter.Job
          /\ TaskById(tasks, ret'.task).lastCompleted = Stamped) =>
            /\ ~\E k \in jobs : k.taskId = ret'.task
            /\ ret'.handle \notin DOMAIN proc
            /\ \E k \in jobs' : k.id = ret'.handle /\ k.taskId = ret'.task
            /\ IF ret'.handle \in cancelled
               THEN proc'[ret'.handle].pc = "dropped"
               ELSE /\ proc'[ret'.handle].pc = "running"
                    /\ proc'[ret'.handle].runs = 1
                    /\ proc'[ret'.handle].task = ret'.task ]_vars

\* A task was executed, its handle fulfilled, and a later submitTask has its
\* second execution in flight.
C24_Witness ==
  \E j1, j2 \in DOMAIN proc :
    /\ j1 < j2
    /\ promise[j1] = "fulfilled"
    /\ proc[j1].task = proc[j2].task
    /\ proc[j2].pc = "running"
    /\ ret.op = "submitTask" /\ ret.handle = j2

\* C30: a close of a document of a multi-file workspace, while the editor has
\* another document of that workspace open, leaves the workspace, its
\* documents and their tasks in the store and changes nothing but the closed
\* document's state, from editing to indexing.
C30_CloseKeepsWorkspace ==
  [][ (/\ ret'.op = "didClose"
       /\ ret'.uri \in open /\ open' = open \ {ret'.uri}
       /\ WorkspaceType(resolveDocumentWorkspace(ret'.uri)) = "multi-file"
       /\ \E u \in open' : resolveDocumentWorkspace(u) = resolveDocumentWorkspace(ret'.uri)) =>
        /\ workspaces' = workspaces
        /\ tasks' = tasks
        /\ jobs' = jobs
        /\ LET doc == DocumentByUri(documents, ret'.uri)
           IN /\ doc.state = "editing"
              /\ documents' = (documents \ {doc}) \cup {[doc EXCEPT !.state = "indexing"]} ]_vars

\* C27: in every reachable state every document's workspaceId names a stored
\* workspace, every document has exactly one audit Task, every Task's
\* documentId names a stored document and every Job's taskId names a stored
\* Task.
C27_ReferentialIntegrity ==
  /\ \A d \in documents : \E w \in workspaces : w.id = d.workspaceId
  /\ \A d \in documents :
       Cardinality({t \in tasks : t.documentId = d.id /\ t.operation = "audit"}) = 1
  /\ \A t \in tasks : HasDocument(documents, t.documentId)
  /\ \A j \in jobs : HasTask(tasks, j.taskId)

\* C28: when a document has been removed from a workspace that stays stored
\* (a deleted file, a file renamed into another workspace), the next read of
\* a table of that workspace holds no fact of the removed document.
C28_NoFactOfRemovedDocument ==
  [][ (/\ ret.op = "removed"
       /\ ret'.op = "read"
       /\ ret'.ws = ret.ws) =>
        \A f \in wsCache'[ret'.ws][ret'.key] : f[1] # ret.uri ]_vars

\* C29: when the debounce timer of a document expires, the document is in
\* the store: the timer's callback raises no error from a failed lookup.
C29_TimerFindsDocument ==
  [][ \A u \in timers \ timers' :
        /\ HasDocumentUri(documents, u)
        /\ ret'.op # "error" ]_vars

\* C22: the diagnostics published when a document's debounce timer expires
\* come from an execution of its audit task that read the text the last edit
\* left: never from one that was in flight, on the earlier text, when the
\* edit was applied.
C22_DiagnosticsOfEditedText ==
  [][ \A u \in timers \ timers' :
        (ret'.op # "error" /\ HasDocumentUri(documents', u)) =>
          LET doc == DocumentByUri(documents', u)
          IN \A t \in tasks' : \A j \in jobs' :
               (t.documentId = doc.id /\ j.taskId = t.id) =>
                 /\ proc'[j.id].pc = "running"
                 /\ proc'[j.id].text = doc.text ]_vars


\* C26: after textDocument/didOpen the server's buffer of the document
\* holds the text and the version the notification carried, also when the
\* workspace was indexed from disk earlier.
C26_OpenTakesNotificationContent ==
  (ret.op = "didOpen") =>
    /\ HasDocumentUri(documents, ret.uri)
    /\ DocumentByUri(documents, ret.uri).text = ret.text
    /\ CreatedVersion = ret.version


RECURSIVE ReplaceSymbol(_, _)
\* The text with every instance of the symbol replaced by the new name.
ReplaceSymbol(content, newName) ==
  IF content = <<>> THEN <<>>
  ELSE (IF Head(content) = "k" THEN newName ELSE <<Head(content)>>)
         \o ReplaceSymbol(Tail(content), newName)

\* C25: rename on a target document in state indexing leaves a buffer, and
\* writes a file, equal to the text before the rename with the node range of
\* every instance replaced by the adjusted new name, also with several
\* instances on one line and a new name of another length, and the version
\* of the document increases by exactly one.
C25_RenameRewritesEveryInstance ==
  (out.op = "rename") =>
    /\ tsDoc.content = ReplaceSymbol(out.before, out.newName)
    /\ disk[RenameUri] = tsDoc.content
    /\ tsDoc.version = out.version + 1


RECURSIVE WellNumbered(_)
\* Every child of the node has the node's number, a "." and its position,
\* and so on below it.
WellNumbered(node) ==
  \A i \in 1..Len(node.children) :
    /\ node.children[i].number = node.number \o <<".", i>>
    /\ WellNumbered(node.children[i])

\* C21: the workspace outline numbers the root document's top section "1"
\* and every other node with its parent's number, a "." and its 1-based
\* position among the parent's children; with one section and one include
\* of a second file in the root document, the included document's root
\* section has the number "1.1".
C21_OutlineNumbers ==
  (out.op = "outline" /\ out.scope = "workspace") =>
    /\ out.tree.number = <<1>>
    /\ out.tree.uri = RootUri
    /\ WellNumbered(out.tree)
    /\ (/\ Len(facts[RootUri].children) = 1
        /\ facts[RootUri].children[1].type = "include"
        /\ facts[RootUri].children[1].key = "b") =>
         /\ Len(out.tree.children) = 1
         /\ out.tree.children[1].number = <<1, ".", 1>>
         /\ out.tree.children[1].uri = IncludedUri

\* The outline of a root document that has an include of the second file
\* and a subsection after it.
C21_Witness ==
  /\ out.op = "outline" /\ out.scope = "workspace"
  /\ \E i, j \in 1..Len(out.tree.children) :
       /\ i < j
       /\ out.tree.children[i].uri = IncludedUri
       /\ out.tree.children[j].uri = RootUri

\* Whether the task of the first job lists the task of the second.
Lists(jobId1, jobId2) ==
  ComparedTask(jobId2) \in TaskById(tasks, ComparedTask(jobId1)).dependencyIds

\* C33: the comparator returns for (cancelled id, id not cancelled) the
\* sign it returns for (dependent, its dependency), and the opposite sign
\* when the cancelled id is the second argument.
C33_CancelledRanksAsDependent ==
  (ret.op = "jobCompare" /\ ret.jobId1 \in cancelled /\ ret.jobId2 \notin cancelled) =>
    /\ ret.swapped = -ret.value
    /\ \A d, e \in ComparedIds \ cancelled :
         (Lists(d, e) /\ ~Lists(e, d)) => jobCompare(Cur, d, e) = ret.value

\* C34: for two ids that are not cancelled, when one task lists the other the
\* comparator ranks the dependency above the dependent (the queue pops the
\* greatest id first), with the mirrored value for swapped arguments; for
\* every pair of which neither lists the other, also the ends of a chain,
\* it returns 0.
C34_DirectDependencyOnly ==
  (ret.op = "jobCompare" /\ ret.jobId1 \notin cancelled /\ ret.jobId2 \notin cancelled) =>
    /\ (Lists(ret.jobId1, ret.jobId2) /\ ~Lists(ret.jobId2, ret.jobId1)) =>
         (ret.value = -1 /\ ret.swapped = 1)
    /\ (~Lists(ret.jobId1, ret.jobId2) /\ ~Lists(ret.jobId2, ret.jobId1)) =>
         (ret.value = 0 /\ ret.swapped = 0)

\* The two ends of a chain of three tasks have been compared.
C34_Witness ==
  /\ ret.op = "jobCompare" /\ cancelled = {}
  /\ \E m \in ComparedIds \ {ret.jobId1, ret.jobId2} :
       /\ Lists(ret.jobId1, m) /\ Lists(m, ret.jobId2)
       /\ ~Lists(ret.jobId1, ret.jobId2) /\ ~Lists(ret.jobId2, ret.jobId1)
  /\ ret.value = 0

\* C35: jobCompare(a, b) = -jobCompare(b, a) for all queued ids, also when
\* both are cancelled and when the two tasks list each other.
C35_Antisymmetric ==
  (ret.op = "jobCompare") => ret.value = -ret.swapped

\* C36: submitTask returns for every graph of dependencies among the stored
\* tasks, also when a task lists itself or two tasks list each other, and
\* creates at most one Job for each task.
C36_SubmitTerminates ==
  (ret.op = "submitted") =>
    /\ ~ret.overflow
    /\ \A t \in TaskIds : Cardinality({j \in ret.created : j.taskId = t}) <= 1

\* C37: building the workspace outline and the file tree ends without
\* exhausting the call stack for every graph of includes among the
\* documents, also when a document includes itself and when two documents
\* include each other.
C37_BuildersTerminate ==
  (out.op \in {"outline", "fileTree"}) => ~out.overflow

\* C38: every id added to the cancelled set is removed from it in the end,
\* also when cancelJob was called for a job already popped, as dropDocument
\* does.
C38_CancelledEventuallyRemoved ==
  \A j \in 1..MaxJobs : (j \in cancelled) ~> (j \notin cancelled)

\* C31: after any sequence of updates the stored table of line offsets is
\* the table computed from scratch from the buffer's text.
C31_LineOffsetsOfText ==
  (tsDoc.lineOffsets # <<>>) =>
    tsDoc.lineOffsets = computeLineOffsets(tsDoc.content, TRUE, 0)

\* C32: an update that fails on a change of neither shape leaves the
\* buffer's text, table of line offsets, tree and version and the
\* document's memoized facts as they were before the call, also when
\* changes before it in the same list were valid.
C32_FailedUpdateChangesNothing ==
  [][(out'.op = "update" /\ out'.threw) =>
       /\ tsDoc'.content = tsDoc.content
       /\ getLineOffsets(tsDoc') = getLineOffsets(tsDoc)
       /\ tsDoc'.tree = tsDoc.tree
       /\ tsDoc'.version = tsDoc.version
       /\ docCache' = docCache]_vars

RECURSIVE InTextOrder(_)
\* Among the children of the node that are its own subsections (outline
\* nodes of the same document), one that starts on an earlier line has the
\* smaller position, and so on below the node.
InTextOrder(node) ==
  /\ \A i, j \in 1..Len(node.children) :
       (/\ node.children[i].uri = node.uri
        /\ node.children[j].uri = node.uri
        /\ node.children[i].line < node.children[j].line) => i < j
  /\ \A i \in 1..Len(node.children) : InTextOrder(node.children[i])

\* C39: in the outline the subsections of a section are numbered in the
\* order of the text, also when the siblings are of different levels.
C39_SubsectionsInTextOrder ==
  (out.op = "outline") => (WellNumbered(out.tree) /\ InTextOrder(out.tree))

\* C40: an update with an incremental change whose range starts after its
\* end yields the text, the table of line offsets and the coordinates of
\* the tree's edit that the change with the ends exchanged yields.
C40_EndFirstRangeIsExchanged ==
  (out.op = "endFirst") =>
    /\ tsDoc.content = out.exchanged.content
    /\ tsDoc.lineOffsets = out.exchanged.lineOffsets
    /\ out.edit = out.exchanged.edit

\* A range from the second line back into the first has replaced text.
C40_Witness ==
  /\ out.op = "endFirst"
  /\ out.change.range.start.line > out.change.range.end.line
  /\ out.edit.oldEndIndex > out.edit.startIndex
  /\ tsDoc.content # out.before

====
